---- MODULE Spec2Model ----
(***************************************************************************)
(* PyLine2 timeline audio engine: the Timeline/Marker model, the undo      *)
(* history, the render pool and the audio callback.                        *)
(*                                                                         *)
(* Units.  Times (seconds in the source) are integer milliseconds; sample  *)
(* rates are samples per second; sample amplitudes, volume and pan are      *)
(* hundredths (1.0 in the source is 100).  Tempo is beats per minute.      *)
(***************************************************************************)
EXTENDS Integers, Sequences, FiniteSets, TLC

VARIABLES
    timelines,              \* TimelineModel::timelines (OwnedArray<Timeline>)
    markerHeap,             \* the Marker objects, by address
    undoSnapshots,          \* MainComponent::undoSnapshots
    isRestoring,            \* MainComponent::isRestoring
    selectedTimelineIndex,  \* MainComponent::selectedTimelineIndex
    view,                   \* TimelineView's selection and gesture state
    copiedMarkers,          \* MainComponent::copiedMarkers
    projectFile,            \* the document in the file MainComponent::projectFile names
    playing,                \* MainComponent::playing
    playheadSeconds,        \* MainComponent::playheadSeconds
    jobQueue,               \* juce::ThreadPool: jobs added and not yet started
    workers,                \* juce::ThreadPool: what each pool thread runs
    audio,                  \* the audio thread inside getNextAudioBlock
    lastCallback,           \* the last RenderCallback invocation
    lastOp,                 \* history: the handler that ran last
    opBase,                 \* history: the model when the running gesture began
    opsLeft                 \* handlers the exploration may still run

vars == << timelines, markerHeap, undoSnapshots, isRestoring, selectedTimelineIndex,
           view, copiedMarkers, projectFile, playing, playheadSeconds, jobQueue, workers, audio,
           lastCallback, lastOp, opBase, opsLeft >>

(***************************************************************************)
(* Program constants                                                       *)
(***************************************************************************)
MaxUndo == 10
WaveformPoints == 200
PoolThreads == 2
MinRenderMs == 10

(***************************************************************************)
(* Bounds of the model                                                     *)
(***************************************************************************)
MaxMarkers == 2
MaxTimelines == 3
MaxOps == 4
HistoryOps == 8
RenderOps == 2
MaxQueue == 3
MaxPoints == 2
AutomationOps == 5
ProjectOps == 4
CutOps == 6
SweepOps == 3
MixOps == 1
ClipOps == 6
AudioOps == 3
DestroyOps == 2
RequestOps == 2

MarkerIds == 1..MaxMarkers
NoMarker == 0

(***************************************************************************)
(* juce helpers                                                            *)
(***************************************************************************)
jmax(a, b) == IF a < b THEN b ELSE a

jmin(a, b) == IF b < a THEN b ELSE a

jlimit(lo, hi, v) == IF v < lo THEN lo ELSE IF hi < v THEN hi ELSE v

Abs(x) == IF x < 0 THEN -x ELSE x

\* std::round of the rational num/den (den > 0): half away from zero
RoundDiv(num, den) ==
    IF num >= 0 THEN (2 * num + den) \div (2 * den)
    ELSE -((2 * (-num) + den) \div (2 * den))

SeqRange(s) == { s[i] : i \in 1..Len(s) }

RECURSIVE SeqSum(_)
SeqSum(s) == IF s = <<>> THEN 0 ELSE Head(s) + SeqSum(Tail(s))

RECURSIVE SetMax(_)
SetMax(S) ==
    IF S = {} THEN 0
    ELSE LET x == CHOOSE y \in S : TRUE
             m == SetMax(S \ {x})
         IN IF x > m THEN x ELSE m

\* juce::Array<double>::sort / std::sort by ascending value (insertion of x into a sorted s)
RECURSIVE InsertSorted(_, _)
InsertSorted(x, s) ==
    IF s = <<>> THEN << x >>
    ELSE IF x < Head(s) THEN << x >> \o s
    ELSE << Head(s) >> \o InsertSorted(x, Tail(s))

RECURSIVE sortAscending(_)
sortAscending(s) == IF s = <<>> THEN <<>> ELSE InsertSorted(Head(s), sortAscending(Tail(s)))

IsSortedSeq(s) == \A i \in 1..(Len(s) - 1) : s[i] <= s[i + 1]

(***************************************************************************)
(* juce::AudioBuffer<float> behind a unique_ptr                            *)
(***************************************************************************)
NoBuffer == [present |-> FALSE, channels |-> 0, data |-> <<>>]

\* AudioBuffer(channels, samples) filled from per-channel sample sequences
MakeBuffer(chans) == [present |-> TRUE, channels |-> Len(chans), data |-> chans]

getNumSamples(buf) == IF buf.channels = 0 THEN 0 ELSE Len(buf.data[1])

getNumChannels(buf) == buf.channels

getSample(buf, ch, s) == buf.data[ch + 1][s + 1]

\* makeCopyOf into a fresh AudioBuffer of the same shape
makeCopyOf(buf) ==
    [present |-> TRUE,
     channels |-> getNumChannels(buf),
     data |-> [c \in 1..getNumChannels(buf) |->
                 [s \in 1..getNumSamples(buf) |-> getSample(buf, c - 1, s - 1)]]]

\* newBuf->copyFrom(ch, 0, old, ch, 0, n) for every channel: the first n samples
copyFirst(buf, n) ==
    [present |-> TRUE,
     channels |-> getNumChannels(buf),
     data |-> [c \in 1..getNumChannels(buf) |-> SubSeq(buf.data[c], 1, n)]]

\* setSize(channels, 0, keepExistingContent...): the same buffer with no samples
setSizeZero(buf) ==
    [present |-> TRUE,
     channels |-> getNumChannels(buf),
     data |-> [c \in 1..getNumChannels(buf) |-> <<>>]]

(***************************************************************************)
(* Marker, AutomationPoint, Timeline                                       *)
(***************************************************************************)
NoFile == "none"

NewMarker ==
    [live |-> TRUE,
     startTimeSeconds |-> 0,
     isDragging |-> FALSE,
     renderBars |-> 0,
     lastRenderedTempoBpm |-> 0,
     lastRenderedDurationSeconds |-> 0,
     lastRenderedPythonPath |-> NoFile,
     waveform |-> <<>>,
     fadeInSeconds |-> 0,
     fadeOutSeconds |-> 0,
     pythonFile |-> NoFile,
     renderedWavFile |-> NoFile,
     renderedBuffer |-> NoBuffer,
     renderedSampleRate |-> 0,
     writes |-> 0]     \* history: stores into renderedBuffer / renderedSampleRate so far

\* a destroyed Marker: the address is free for the next new Marker()
FreedMarker == [NewMarker EXCEPT !.live = FALSE]

NewTimeline ==
    [tempoBpm |-> 120,
     durationSeconds |-> 8000,
     beatsPerBar |-> 4,
     beatUnit |-> 4,
     viewStartSeconds |-> 0,
     viewDurationSeconds |-> 0,
     volume |-> 100,
     pan |-> 0,
     nextAutomationId |-> 1,
     volumeAutomation |-> <<>>,
     panAutomation |-> <<>>,
     automationExpanded |-> FALSE,
     zoomY |-> 100,
     automationZoomY |-> 100,
     repeatMarkers |-> <<>>,
     markers |-> <<>>]

\* TimelineModel::addTimeline: the Timeline it appends
addTimeline(tempoBpm, durationSeconds) ==
    [NewTimeline EXCEPT !.tempoBpm = tempoBpm,
                        !.durationSeconds = durationSeconds,
                        !.viewStartSeconds = 0,
                        !.viewDurationSeconds = durationSeconds,
                        !.volume = 100,
                        !.pan = 0,
                        !.zoomY = 100,
                        !.automationZoomY = 100]

getTimelineCount == Len(timelines)

\* new Marker(): the lowest free address, or NoMarker when the model's heap is full
FreeIds(heap) == { m \in MarkerIds : ~heap[m].live }

AllocId(heap) == IF FreeIds(heap) = {} THEN NoMarker
                 ELSE CHOOSE m \in FreeIds(heap) : \A k \in FreeIds(heap) : m <= k

\* the Markers every Timeline owns
OwnedIds(tls) == UNION { SeqRange(tls[i].markers) : i \in 1..Len(tls) }

TL(tls, index) == tls[index + 1]

(***************************************************************************)
(* Waveform summary                                                        *)
(***************************************************************************)
\* the peak of one bin: the maximum of |sample| over all channels and over [start, end)
BinPeak(buf, start, end) ==
    SetMax({ Abs(getSample(buf, ch, s)) :
             ch \in 0..(getNumChannels(buf) - 1), s \in start..(end - 1) })

\* MainComponent::recomputeWaveform: the waveform it leaves in the Marker
recomputeWaveform(buf) ==
    IF ~buf.present \/ getNumSamples(buf) <= 0
    THEN [i \in 1..WaveformPoints |-> 0]
    ELSE LET total == getNumSamples(buf)
         IN [i \in 1..WaveformPoints |->
                LET start == ((i - 1) * total) \div WaveformPoints
                    end0 == (i * total) \div WaveformPoints
                    end1 == IF end0 <= start THEN start + 1 ELSE end0
                    end == jmin(end1, total)
                IN jlimit(0, 100, BinPeak(buf, start, end))]

(***************************************************************************)
(* Project history: snapshots, restore, push, undo                         *)
(***************************************************************************)
\* a snapshot that forgets the fade-in
makeMarkerSnapshotWithoutFade(marker, timelineIndex) ==
    [timelineIndex |-> timelineIndex,
     startTimeSeconds |-> marker.startTimeSeconds,
     renderBars |-> marker.renderBars,
     pythonFile |-> marker.pythonFile,
     renderedSampleRate |-> marker.renderedSampleRate,
     lastRenderedTempoBpm |-> marker.lastRenderedTempoBpm,
     lastRenderedDurationSeconds |-> marker.lastRenderedDurationSeconds,
     lastRenderedPythonPath |-> marker.lastRenderedPythonPath,
     waveform |-> marker.waveform,
     fadeInSeconds |-> 0,
     fadeOutSeconds |-> marker.fadeOutSeconds,
     renderedBuffer |-> IF marker.renderedBuffer.present
                        THEN makeCopyOf(marker.renderedBuffer)
                        ELSE NoBuffer]

\* MainComponent::makeMarkerSnapshot
makeMarkerSnapshot(marker, timelineIndex) ==
    [timelineIndex |-> timelineIndex,
     startTimeSeconds |-> marker.startTimeSeconds,
     renderBars |-> marker.renderBars,
     pythonFile |-> marker.pythonFile,
     renderedSampleRate |-> marker.renderedSampleRate,
     lastRenderedTempoBpm |-> marker.lastRenderedTempoBpm,
     lastRenderedDurationSeconds |-> marker.lastRenderedDurationSeconds,
     lastRenderedPythonPath |-> marker.lastRenderedPythonPath,
     waveform |-> marker.waveform,
     fadeInSeconds |-> marker.fadeInSeconds,
     fadeOutSeconds |-> marker.fadeOutSeconds,
     renderedBuffer |-> IF marker.renderedBuffer.present
                        THEN makeCopyOf(marker.renderedBuffer)
                        ELSE NoBuffer]

snapshotTimeline(tls, heap, i) ==
    LET t == tls[i]
    IN [tempoBpm |-> t.tempoBpm,
        durationSeconds |-> t.durationSeconds,
        beatsPerBar |-> t.beatsPerBar,
        beatUnit |-> t.beatUnit,
        viewStartSeconds |-> t.viewStartSeconds,
        viewDurationSeconds |-> t.viewDurationSeconds,
        volume |-> t.volume,
        pan |-> t.pan,
        nextAutomationId |-> t.nextAutomationId,
        volumeAutomation |-> t.volumeAutomation,
        panAutomation |-> t.panAutomation,
        automationExpanded |-> t.automationExpanded,
        zoomY |-> t.zoomY,
        automationZoomY |-> t.automationZoomY,
        repeatMarkers |-> t.repeatMarkers,
        markers |-> [k \in 1..Len(t.markers) |->
                        makeMarkerSnapshot(heap[t.markers[k]], i - 1)]]

snapshotModel(tls, heap) ==
    [timelines |-> [i \in 1..Len(tls) |-> snapshotTimeline(tls, heap, i)]]

\* restoreModel: the Marker built from one MarkerSnapshot
restoreMarker(ms) ==
    [NewMarker EXCEPT
        !.startTimeSeconds = ms.startTimeSeconds,
        !.renderBars = ms.renderBars,
        !.pythonFile = ms.pythonFile,
        !.renderedSampleRate = ms.renderedSampleRate,
        !.lastRenderedTempoBpm = ms.lastRenderedTempoBpm,
        !.lastRenderedDurationSeconds = ms.lastRenderedDurationSeconds,
        !.lastRenderedPythonPath = ms.lastRenderedPythonPath,
        !.waveform = ms.waveform,
        !.fadeInSeconds = ms.fadeInSeconds,
        !.fadeOutSeconds = ms.fadeOutSeconds,
        !.renderedBuffer = IF ms.renderedBuffer.present
                           THEN makeCopyOf(ms.renderedBuffer)
                           ELSE NoBuffer]

\* restoreModel allocates after clearTimelines freed every Marker: the k-th Marker of
\* the i-th snapshot timeline gets the (markers before it + k)-th address
MarkersBefore(tss, i) == SeqSum([j \in 1..(i - 1) |-> Len(tss[j].markers)])

\* restoreModel: the Timeline built from one TimelineSnapshot
restoreTimeline(tss, i) ==
    LET ts == tss[i]
    IN [addTimeline(ts.tempoBpm, ts.durationSeconds) EXCEPT
           !.beatsPerBar = ts.beatsPerBar,
           !.beatUnit = ts.beatUnit,
           !.viewStartSeconds = ts.viewStartSeconds,
           !.viewDurationSeconds = ts.viewDurationSeconds,
           !.volume = ts.volume,
           !.pan = ts.pan,
           !.nextAutomationId = ts.nextAutomationId,
           !.volumeAutomation = ts.volumeAutomation,
           !.panAutomation = ts.panAutomation,
           !.automationExpanded = ts.automationExpanded,
           !.zoomY = ts.zoomY,
           !.automationZoomY = ts.automationZoomY,
           !.repeatMarkers = ts.repeatMarkers,
           !.markers = [k \in 1..Len(ts.markers) |-> MarkersBefore(tss, i) + k]]

restoreModelTimelines(snap) ==
    [i \in 1..Len(snap.timelines) |-> restoreTimeline(snap.timelines, i)]

restoreModelHeap(snap) ==
    LET tss == snap.timelines
    IN [m \in MarkerIds |->
          IF \E i \in 1..Len(tss) : \E k \in 1..Len(tss[i].markers) :
                 MarkersBefore(tss, i) + k = m
          THEN LET i == CHOOSE i \in 1..Len(tss) :
                          \E k \in 1..Len(tss[i].markers) : MarkersBefore(tss, i) + k = m
               IN restoreMarker(tss[i].markers[m - MarkersBefore(tss, i)])
          ELSE FreedMarker]

\* MainComponent::selectTimeline: the index it selects
selectTimeline(count, index) == IF count = 0 THEN 0 ELSE jlimit(0, count - 1, index)

\* a push that never discards the oldest snapshot
pushUndoStateUncapped(stack, tls, heap, restoring) ==
    IF restoring THEN stack ELSE Append(stack, snapshotModel(tls, heap))

\* a push that discards the new snapshot when the stack is full
pushUndoStateKeepingOldest(stack, tls, heap, restoring) ==
    IF restoring \/ Len(stack) >= MaxUndo THEN stack
    ELSE Append(stack, snapshotModel(tls, heap))

\* a push whose snapshots all show the live model
pushUndoStateSharing(stack, tls, heap, restoring) ==
    IF restoring THEN stack
    ELSE LET pushed == Append(stack, snapshotModel(tls, heap))
             capped == IF Len(pushed) > MaxUndo THEN Tail(pushed) ELSE pushed
         IN [n \in 1..Len(capped) |-> snapshotModel(tls, heap)]

\* MainComponent::pushUndoState: the undo stack it leaves
pushUndoState(stack, tls, heap, restoring) ==
    IF restoring THEN stack
    ELSE LET pushed == Append(stack, snapshotModel(tls, heap))
         IN IF Len(pushed) > MaxUndo THEN Tail(pushed) ELSE pushed

\* The data model of section 3 as a value: every Timeline with its Markers by value
\* (a Marker's address, its isDragging flag and its renderedWavFile scratch path are
\* not part of it)
MarkerValue(marker) ==
    [startTimeSeconds |-> marker.startTimeSeconds,
     renderBars |-> marker.renderBars,
     pythonFile |-> marker.pythonFile,
     renderedSampleRate |-> marker.renderedSampleRate,
     lastRenderedTempoBpm |-> marker.lastRenderedTempoBpm,
     lastRenderedDurationSeconds |-> marker.lastRenderedDurationSeconds,
     lastRenderedPythonPath |-> marker.lastRenderedPythonPath,
     waveform |-> marker.waveform,
     fadeInSeconds |-> marker.fadeInSeconds,
     fadeOutSeconds |-> marker.fadeOutSeconds,
     renderedBuffer |-> marker.renderedBuffer]

ModelValue(tls, heap) ==
    [i \in 1..Len(tls) |->
        [tls[i] EXCEPT !.markers = [k \in 1..Len(tls[i].markers) |->
                                       MarkerValue(heap[tls[i].markers[k]])]]]

NoBase == << >>

(***************************************************************************)
(* Time mapping and render duration                                        *)
(***************************************************************************)
\* isAlvaSynthFile: the file name starts with "alva_"
isAlvaSynthFile(file) == file \in {"alva_b.py"}

\* getRenderDurationSecondsForMarker (milliseconds; exact for the tempos and beat
\* units of the model, which divide 240000)
getRenderDurationSecondsForMarker(timeline, marker) ==
    LET tempo == jmax(1, timeline.tempoBpm)
        beatUnit == jmax(1, timeline.beatUnit)
        beatsPerBar == jmax(1, timeline.beatsPerBar)
        barSeconds == (240000 * beatsPerBar) \div (tempo * beatUnit)
    IN IF marker.renderBars > 0 THEN jmax(MinRenderMs, barSeconds * marker.renderBars)
       ELSE IF isAlvaSynthFile(marker.pythonFile) THEN jmax(MinRenderMs, barSeconds)
       ELSE timeline.durationSeconds

(***************************************************************************)
(* The render pool (PythonRenderer)                                        *)
(***************************************************************************)
Idle == [pc |-> "idle", marker |-> NoMarker, sampleRate |-> 0, durationSeconds |-> 0,
         tempoBpm |-> 0, timedOut |-> FALSE, rate |-> 0, buffer |-> NoBuffer]

\* new RenderJob(marker, sampleRate, durationSeconds, tempoBpm, callback)
RenderJob(marker, sampleRate, durationSeconds, tempoBpm) ==
    [Idle EXCEPT !.pc = "queued", !.marker = marker, !.sampleRate = sampleRate,
                 !.durationSeconds = durationSeconds, !.tempoBpm = tempoBpm]

\* PythonRenderer::renderMarker: pool.addJob appends the new job
renderMarker(queue, marker, sampleRate, durationSeconds, tempoBpm) ==
    Append(queue, RenderJob(marker, sampleRate, durationSeconds, tempoBpm))

\* a sweep that does not look at the desired duration
needsRerenderIgnoringDuration(timeline, marker) ==
    \/ marker.lastRenderedPythonPath # marker.pythonFile
    \/ marker.lastRenderedTempoBpm # timeline.tempoBpm

\* TimelineView::rerenderTimelineMarkersIfNeeded: does this Marker need a render?
needsRerender(timeline, marker) ==
    \/ marker.lastRenderedPythonPath # marker.pythonFile
    \/ marker.lastRenderedTempoBpm # timeline.tempoBpm
    \/ marker.lastRenderedDurationSeconds # getRenderDurationSecondsForMarker(timeline, marker)

\* rerenderTimelineMarkersIfNeeded: the queue after the sweep over markers k..end
RECURSIVE sweepFrom(_, _, _, _, _)
sweepFrom(queue, timeline, heap, sr, k) ==
    IF k > Len(timeline.markers) THEN queue
    ELSE LET id == timeline.markers[k]
             marker == heap[id]
             q == IF needsRerender(timeline, marker)
                  THEN renderMarker(queue, id, sr,
                                    getRenderDurationSecondsForMarker(timeline, marker),
                                    timeline.tempoBpm)
                  ELSE queue
         IN sweepFrom(q, timeline, heap, sr, k + 1)

rerenderTimelineMarkersIfNeeded(queue, tls, heap, sr, timelineIndex) ==
    IF timelineIndex < 0 \/ timelineIndex >= Len(tls) THEN queue
    ELSE sweepFrom(queue, TL(tls, timelineIndex), heap, sr, 1)

\* the sample rate handed to render jobs (prepareToPlay sets both copies)
deviceSampleRate == 1

(***************************************************************************)
(* TimelineView: selection and gesture state                               *)
(***************************************************************************)
NewView ==
    [mouseIsDown |-> FALSE,
     editInProgress |-> FALSE,
     scissorsEnabled |-> FALSE,
     selectedTimelineIndex |-> 0,
     selectedMarkers |-> <<>>,
     lastSelectedMarker |-> NoMarker,
     lastSelectedMarkerTimelineIndex |-> -1,
     selectedRepeatMarkerIndex |-> -1,
     selectedRepeatMarkerTimelineIndex |-> -1,
     draggingRepeatMarker |-> FALSE,
     draggingFadeMarker |-> NoMarker,
     draggingFadeIsIn |-> FALSE,
     draggingFadeTimelineIndex |-> -1,
     draggingMarker |-> NoMarker,
     dragTimelineIndex |-> -1,
     draggingAutomationLane |-> "None",
     draggingAutomationPointId |-> -1,
     draggingAutomationTimelineIndex |-> -1,
     selectedAutomationLane |-> "None",
     selectedAutomationPointId |-> -1,
     selectedAutomationTimelineIndex |-> -1,
     chooserTimelineIndex |-> -1,
     chooserTimeSeconds |-> 0]

\* TimelineView::setSelectedTimeline
setSelectedTimeline(v, index) ==
    [v EXCEPT !.selectedTimelineIndex = index,
              !.selectedMarkers = <<>>,
              !.lastSelectedMarker = NoMarker,
              !.lastSelectedMarkerTimelineIndex = -1]

\* TimelineView::setSelectedTimelinePreserveSelection
setSelectedTimelinePreserveSelection(v, index) ==
    [v EXCEPT !.selectedTimelineIndex = index]

\* mouseDown up to line 248: the timeline under the cursor becomes the selected one
mouseDownSelect(v, index) ==
    IF v.scissorsEnabled THEN setSelectedTimelinePreserveSelection(v, index)
    ELSE setSelectedTimeline(v, index)

\* TimelineView::beginEditOnce: the view and the undo stack it leaves
beginEditOnceView(v) == [v EXCEPT !.editInProgress = TRUE]

beginEditOnceStack(v, stack, tls, heap, restoring) ==
    IF v.editInProgress THEN stack ELSE pushUndoState(stack, tls, heap, restoring)

\* TimelineView::addRepeatMarker: the repeatMarkers it leaves
addRepeatMarker(timeline, timeSeconds) ==
    LET t == jlimit(0, timeline.durationSeconds, timeSeconds)
        kept == IF Len(timeline.repeatMarkers) >= 2 THEN <<>> ELSE timeline.repeatMarkers
    IN sortAscending(Append(kept, t))

\* juce::Array::indexOf: the first index holding x, or -1
indexOf(arr, x) ==
    IF \E i \in 1..Len(arr) : arr[i] = x
    THEN (CHOOSE i \in 1..Len(arr) : arr[i] = x /\ \A j \in 1..(i - 1) : arr[j] # x) - 1
    ELSE -1

\* juce::Array::remove(index)
removeAt(arr, index) ==
    [i \in 1..(Len(arr) - 1) |-> IF i <= index THEN arr[i] ELSE arr[i + 1]]

contains(arr, x) == \E i \in 1..Len(arr) : arr[i] = x

\* OwnedArray::removeObject / Array::removeFirstMatchingValue
removeObject(arr, x) == IF contains(arr, x) THEN removeAt(arr, indexOf(arr, x)) ELSE arr

(***************************************************************************)
(* History bookkeeping                                                     *)
(***************************************************************************)
Did(op) ==
    /\ opsLeft > 0
    /\ opsLeft' = opsLeft - 1
    /\ lastOp' = op

\* this step is a handler of the control context
HandlerStep == opsLeft' = opsLeft - 1

threadVars == << jobQueue, workers, audio, lastCallback >>
playVars == << playing, playheadSeconds >>

ValidIndex(index) == index >= 0 /\ index < Len(timelines)

\* the rendered length of a Marker in milliseconds: numSamples / renderedSampleRate
\* (exact for the sample rates of the model, which divide 1000)
renderedDuration(marker) ==
    (getNumSamples(marker.renderedBuffer) * 1000) \div marker.renderedSampleRate

hasRenderedAudio(marker) ==
    /\ marker.renderedBuffer.present
    /\ marker.renderedSampleRate > 0
    /\ getNumSamples(marker.renderedBuffer) > 0

(***************************************************************************)
(* TimelineView::mouseDown, one action per branch                          *)
(***************************************************************************)
\* lines 267-280: right button: a repeat marker is added at the cursor
MouseDownRight(ti, t) ==
    /\ ~view.mouseIsDown
    /\ ValidIndex(ti)
    /\ Did("addRepeatMarker")
    /\ LET v1 == mouseDownSelect(view, ti)
       IN /\ undoSnapshots' = beginEditOnceStack(v1, undoSnapshots, timelines,
                                                 markerHeap, isRestoring)
          /\ timelines' = [timelines EXCEPT
                             ![ti + 1].repeatMarkers = addRepeatMarker(timelines[ti + 1], t)]
          /\ view' = [beginEditOnceView(v1) EXCEPT
                         !.selectedRepeatMarkerIndex = -1,
                         !.selectedRepeatMarkerTimelineIndex = -1,
                         !.mouseIsDown = TRUE]
    /\ selectedTimelineIndex' = selectTimeline(Len(timelines), ti)
    /\ opBase' = ModelValue(timelines, markerHeap)
    /\ UNCHANGED << markerHeap, isRestoring, copiedMarkers, projectFile, playVars, threadVars >>

\* lines 294-304: the cursor is on repeat marker idx: its drag begins
MouseDownRepeatMarker(ti, idx) ==
    /\ ~view.mouseIsDown
    /\ ValidIndex(ti)
    /\ ~view.scissorsEnabled
    /\ idx >= 0 /\ idx < Len(timelines[ti + 1].repeatMarkers)
    /\ Did(IF view.editInProgress THEN "mouseDown" ELSE "push")
    /\ LET v1 == mouseDownSelect(view, ti)
       IN /\ undoSnapshots' = beginEditOnceStack(v1, undoSnapshots, timelines,
                                                 markerHeap, isRestoring)
          /\ view' = [beginEditOnceView(v1) EXCEPT
                         !.selectedRepeatMarkerIndex = idx,
                         !.selectedRepeatMarkerTimelineIndex = ti,
                         !.draggingRepeatMarker = TRUE,
                         !.mouseIsDown = TRUE]
    /\ selectedTimelineIndex' = selectTimeline(Len(timelines), ti)
    /\ opBase' = ModelValue(timelines, markerHeap)
    /\ UNCHANGED << timelines, markerHeap, isRestoring, copiedMarkers, projectFile, playVars, threadVars >>

\* lines 306-316: the cursor is on a fade tab of the k-th marker of the timeline;
\* handleAutomationMouseDown ran first, called beginEditOnce and returned false
MouseDownFadeTab(ti, k, isFadeIn) ==
    /\ ~view.mouseIsDown
    /\ ValidIndex(ti)
    /\ ~view.scissorsEnabled
    /\ k \in 1..Len(timelines[ti + 1].markers)
    /\ hasRenderedAudio(markerHeap[timelines[ti + 1].markers[k]])
    /\ Did(IF view.editInProgress THEN "mouseDown" ELSE "push")
    /\ LET v1 == mouseDownSelect(view, ti)
       IN /\ undoSnapshots' = beginEditOnceStack(v1, undoSnapshots, timelines,
                                                 markerHeap, isRestoring)
          /\ view' = [beginEditOnceView(v1) EXCEPT
                         !.draggingFadeMarker = timelines[ti + 1].markers[k],
                         !.draggingFadeIsIn = isFadeIn,
                         !.draggingFadeTimelineIndex = ti,
                         !.mouseIsDown = TRUE]
    /\ selectedTimelineIndex' = selectTimeline(Len(timelines), ti)
    /\ opBase' = ModelValue(timelines, markerHeap)
    /\ UNCHANGED << timelines, markerHeap, isRestoring, copiedMarkers, projectFile, playVars, threadVars >>

\* lines 318-332: the cursor is on the k-th marker of the timeline: with shift its
\* selection is toggled, without shift it is selected and its drag begins
\* (handleAutomationMouseDown ran first and called beginEditOnce)
MouseDownMarker(ti, k, shift) ==
    /\ ~view.mouseIsDown
    /\ ValidIndex(ti)
    /\ ~view.scissorsEnabled
    /\ k \in 1..Len(timelines[ti + 1].markers)
    /\ Did(IF view.editInProgress THEN "mouseDown" ELSE "push")
    /\ LET v1 == mouseDownSelect(view, ti)
           hit == timelines[ti + 1].markers[k]
           v2 == beginEditOnceView(v1)
       IN /\ undoSnapshots' = beginEditOnceStack(v1, undoSnapshots, timelines,
                                                 markerHeap, isRestoring)
          /\ IF shift
             THEN /\ view' = [v2 EXCEPT
                                !.selectedMarkers =
                                    IF contains(v2.selectedMarkers, hit)
                                    THEN removeObject(v2.selectedMarkers, hit)
                                    ELSE Append(v2.selectedMarkers, hit),
                                !.lastSelectedMarker = hit,
                                !.lastSelectedMarkerTimelineIndex = ti,
                                !.mouseIsDown = TRUE]
                  /\ UNCHANGED markerHeap
             ELSE /\ view' = [v2 EXCEPT
                                !.dragTimelineIndex = ti,
                                !.draggingMarker = hit,
                                !.selectedMarkers = << hit >>,
                                !.lastSelectedMarker = hit,
                                !.lastSelectedMarkerTimelineIndex = ti,
                                !.mouseIsDown = TRUE]
                  /\ markerHeap' = [markerHeap EXCEPT ![hit].isDragging = TRUE]
    /\ selectedTimelineIndex' = selectTimeline(Len(timelines), ti)
    /\ opBase' = ModelValue(timelines, markerHeap)
    /\ UNCHANGED << timelines, isRestoring, copiedMarkers, projectFile, playVars, threadVars >>

(***************************************************************************)
(* Edit operation: cut                                                     *)
(***************************************************************************)
\* a cut that truncates the cut point's sample index where the code rounds it
cutMarkerTruncating(marker, timeSeconds) ==
    IF ~marker.renderedBuffer.present \/ marker.renderedSampleRate <= 0 THEN marker
    ELSE LET relTime == timeSeconds - marker.startTimeSeconds
             cutSample == (relTime * marker.renderedSampleRate) \div 1000
             total == getNumSamples(marker.renderedBuffer)
         IN IF relTime <= 0
            THEN [marker EXCEPT
                    !.renderedBuffer = setSizeZero(marker.renderedBuffer),
                    !.waveform = recomputeWaveform(setSizeZero(marker.renderedBuffer)),
                    !.writes = @ + 1]
            ELSE IF cutSample >= total THEN marker
            ELSE LET cut == jlimit(0, total, cutSample)
                     newBuf == copyFirst(marker.renderedBuffer, cut)
                     duration == (cut * 1000) \div marker.renderedSampleRate
                 IN [marker EXCEPT
                        !.renderedBuffer = newBuf,
                        !.fadeInSeconds = jlimit(0, duration, marker.fadeInSeconds),
                        !.fadeOutSeconds = jlimit(0, duration, marker.fadeOutSeconds),
                        !.waveform = recomputeWaveform(newBuf),
                        !.writes = @ + 1]

\* a cut that clamps the fades of a Marker whose buffer ends before the cut point
cutMarkerClampingBeyondEnd(marker, timeSeconds) ==
    IF ~marker.renderedBuffer.present \/ marker.renderedSampleRate <= 0 THEN marker
    ELSE LET relTime == timeSeconds - marker.startTimeSeconds
             cutSample == RoundDiv(relTime * marker.renderedSampleRate, 1000)
             total == getNumSamples(marker.renderedBuffer)
         IN IF relTime <= 0
            THEN [marker EXCEPT
                    !.renderedBuffer = setSizeZero(marker.renderedBuffer),
                    !.waveform = recomputeWaveform(setSizeZero(marker.renderedBuffer)),
                    !.writes = @ + 1]
            ELSE IF cutSample >= total
            THEN [marker EXCEPT !.fadeInSeconds = 0, !.fadeOutSeconds = 0]
            ELSE LET cut == jlimit(0, total, cutSample)
                     newBuf == copyFirst(marker.renderedBuffer, cut)
                     duration == (cut * 1000) \div marker.renderedSampleRate
                 IN [marker EXCEPT
                        !.renderedBuffer = newBuf,
                        !.fadeInSeconds = jlimit(0, duration, marker.fadeInSeconds),
                        !.fadeOutSeconds = jlimit(0, duration, marker.fadeOutSeconds),
                        !.waveform = recomputeWaveform(newBuf),
                        !.writes = @ + 1]

\* cutSelectedMarkersAt, lines 2479-2511: what the loop body leaves of one target
cutMarker(marker, timeSeconds) ==
    IF ~marker.renderedBuffer.present \/ marker.renderedSampleRate <= 0 THEN marker
    ELSE LET relTime == timeSeconds - marker.startTimeSeconds
             cutSample == RoundDiv(relTime * marker.renderedSampleRate, 1000)
             total == getNumSamples(marker.renderedBuffer)
         IN IF relTime <= 0
            THEN [marker EXCEPT
                    !.renderedBuffer = setSizeZero(marker.renderedBuffer),
                    !.waveform = recomputeWaveform(setSizeZero(marker.renderedBuffer)),
                    !.writes = @ + 1]
            ELSE IF cutSample >= total THEN marker
            ELSE LET cut == jlimit(0, total, cutSample)
                     newBuf == copyFirst(marker.renderedBuffer, cut)
                     duration == (cut * 1000) \div marker.renderedSampleRate
                 IN [marker EXCEPT
                        !.renderedBuffer = newBuf,
                        !.fadeInSeconds = jlimit(0, duration, marker.fadeInSeconds),
                        !.fadeOutSeconds = jlimit(0, duration, marker.fadeOutSeconds),
                        !.waveform = recomputeWaveform(newBuf),
                        !.writes = @ + 1]

\* lines 2452-2457: the selected Markers that are on the timeline
selectedTargets(timeline, selected) ==
    { selected[i] : i \in { j \in 1..Len(selected) : contains(timeline.markers, selected[j]) } }

\* lines 2459-2474: with none selected there, the Markers the cut point intersects
intersectingTargets(timeline, heap, timeSeconds) ==
    { id \in SeqRange(timeline.markers) :
        LET m == heap[id]
        IN /\ hasRenderedAudio(m)
           /\ timeSeconds >= m.startTimeSeconds
           /\ timeSeconds <= m.startTimeSeconds + renderedDuration(m) }

cutTargets(timeline, heap, selected, timeSeconds) ==
    IF selectedTargets(timeline, selected) # {}
    THEN selectedTargets(timeline, selected)
    ELSE intersectingTargets(timeline, heap, timeSeconds)

\* MainComponent::cutSelectedMarkersAt: the Marker objects it leaves
cutSelectedMarkersAt(tls, heap, selected, timelineIndex, timeSeconds) ==
    LET targets == cutTargets(TL(tls, timelineIndex), heap, selected, timeSeconds)
    IN [id \in MarkerIds |->
           IF id \in targets THEN cutMarker(heap[id], timeSeconds) ELSE heap[id]]

\* mouseDown lines 282-292 with the scissors tool on: onScissorsCut(timeline, time)
MouseDownScissors(ti, t) ==
    /\ ~view.mouseIsDown
    /\ ValidIndex(ti)
    /\ view.scissorsEnabled
    /\ LET newHeap == cutSelectedMarkersAt(timelines, markerHeap, view.selectedMarkers, ti, t)
       IN /\ Did(IF newHeap = markerHeap /\ ~isRestoring THEN "push" ELSE "cut")
          /\ markerHeap' = newHeap
    /\ undoSnapshots' = pushUndoState(undoSnapshots, timelines, markerHeap, isRestoring)
    /\ view' = [setSelectedTimelinePreserveSelection(view, ti) EXCEPT !.mouseIsDown = TRUE]
    /\ selectedTimelineIndex' = selectTimeline(Len(timelines), ti)
    /\ opBase' = ModelValue(timelines, markerHeap)
    /\ UNCHANGED << timelines, isRestoring, copiedMarkers, projectFile, playVars, threadVars >>

(***************************************************************************)
(* TimelineView::mouseDrag and mouseUp                                     *)
(***************************************************************************)
\* mouseDrag lines 382-415: what a fade drag to timeSeconds leaves of the Marker
fadeDrag(marker, isFadeIn, timeSeconds) ==
    IF ~(marker.renderedBuffer.present /\ marker.renderedSampleRate > 0) THEN marker
    ELSE LET duration == renderedDuration(marker)
             start == marker.startTimeSeconds
             end == start + duration
             t == jlimit(start, end, timeSeconds)
             m1 == IF isFadeIn
                   THEN [marker EXCEPT !.fadeInSeconds = jlimit(0, duration, t - start)]
                   ELSE [marker EXCEPT !.fadeOutSeconds = jlimit(0, duration, end - t)]
             excess == (m1.fadeInSeconds + m1.fadeOutSeconds) - duration
         IN IF m1.fadeInSeconds + m1.fadeOutSeconds > duration
            THEN IF isFadeIn
                 THEN [m1 EXCEPT !.fadeInSeconds = jmax(0, m1.fadeInSeconds - excess)]
                 ELSE [m1 EXCEPT !.fadeOutSeconds = jmax(0, m1.fadeOutSeconds - excess)]
            ELSE m1

MouseDragFade(t) ==
    /\ view.mouseIsDown
    /\ view.draggingFadeMarker # NoMarker
    /\ ValidIndex(view.draggingFadeTimelineIndex)
    /\ markerHeap[view.draggingFadeMarker].live
    /\ t <= TL(timelines, view.draggingFadeTimelineIndex).durationSeconds
    /\ Did("fadeDrag")
    /\ markerHeap' = [markerHeap EXCEPT ![view.draggingFadeMarker] =
                         fadeDrag(@, view.draggingFadeIsIn, t)]
    /\ UNCHANGED << timelines, undoSnapshots, isRestoring, selectedTimelineIndex, view,
                    copiedMarkers, projectFile, playVars, threadVars, opBase >>

\* mouseDrag lines 417-439: the selected repeat marker follows the cursor
MouseDragRepeatMarker(t) ==
    /\ view.mouseIsDown
    /\ ~(view.draggingFadeMarker # NoMarker /\ view.draggingFadeTimelineIndex >= 0)
    /\ view.draggingRepeatMarker
    /\ view.selectedRepeatMarkerTimelineIndex >= 0
    /\ ValidIndex(view.selectedRepeatMarkerTimelineIndex)
    /\ LET idx == view.selectedRepeatMarkerTimelineIndex
           timeline == TL(timelines, idx)
           timeSeconds == jlimit(0, timeline.durationSeconds, t)
           sel == view.selectedRepeatMarkerIndex
       IN /\ sel >= 0 /\ sel < Len(timeline.repeatMarkers)
          /\ Did("repeatDrag")
          /\ LET moved == sortAscending([timeline.repeatMarkers EXCEPT ![sel + 1] = timeSeconds])
             IN /\ timelines' = [timelines EXCEPT ![idx + 1].repeatMarkers = moved]
                /\ view' = [view EXCEPT !.selectedRepeatMarkerIndex = indexOf(moved, timeSeconds)]
    /\ UNCHANGED << markerHeap, undoSnapshots, isRestoring, selectedTimelineIndex,
                    copiedMarkers, projectFile, playVars, threadVars, opBase >>

\* TimelineView::mouseUp: the view it leaves
mouseUp(v) ==
    IF v.draggingFadeMarker # NoMarker
    THEN [v EXCEPT !.draggingFadeMarker = NoMarker,
                   !.draggingFadeIsIn = FALSE,
                   !.draggingFadeTimelineIndex = -1,
                   !.editInProgress = FALSE]
    ELSE IF v.draggingRepeatMarker
    THEN [v EXCEPT !.draggingRepeatMarker = FALSE, !.editInProgress = FALSE]
    ELSE IF v.draggingAutomationLane # "None"
    THEN [v EXCEPT !.draggingAutomationLane = "None",
                   !.draggingAutomationPointId = -1,
                   !.draggingAutomationTimelineIndex = -1,
                   !.editInProgress = FALSE]
    ELSE IF v.draggingMarker # NoMarker
    THEN [v EXCEPT !.draggingMarker = NoMarker,
                   !.dragTimelineIndex = -1,
                   !.editInProgress = FALSE]
    ELSE v

MouseUp ==
    /\ view.mouseIsDown
    /\ Did("mouseUp")
    /\ view' = [mouseUp(view) EXCEPT !.mouseIsDown = FALSE]
    /\ markerHeap' =
          IF /\ view.draggingFadeMarker = NoMarker
             /\ ~view.draggingRepeatMarker
             /\ view.draggingAutomationLane = "None"
             /\ view.draggingMarker # NoMarker
             /\ markerHeap[view.draggingMarker].live
          THEN [markerHeap EXCEPT ![view.draggingMarker].isDragging = FALSE]
          ELSE markerHeap
    /\ opBase' = NoBase
    /\ UNCHANGED << timelines, undoSnapshots, isRestoring, selectedTimelineIndex,
                    copiedMarkers, projectFile, playVars, threadVars >>

(***************************************************************************)
(* MainComponent: keys, buttons and the inspector                          *)
(***************************************************************************)
hasSelectedAutomationPoint(v) ==
    /\ v.selectedAutomationLane # "None"
    /\ v.selectedAutomationPointId >= 0
    /\ v.selectedAutomationTimelineIndex >= 0

hasSelectedRepeatMarker(v) ==
    v.selectedRepeatMarkerTimelineIndex >= 0 /\ v.selectedRepeatMarkerIndex >= 0

\* std::remove_if + erase: the points whose id is not the given one
erasePoint(points, id) ==
    LET keep == { i \in 1..Len(points) : points[i].id # id }
        nth(n) == CHOOSE i \in keep : Cardinality({ j \in keep : j < i }) = n - 1
    IN [n \in 1..Cardinality(keep) |-> points[nth(n)]]

\* TimelineView::deleteSelectedAutomationPoint: the timelines it leaves
deleteSelectedAutomationPoint(tls, v) ==
    IF ~hasSelectedAutomationPoint(v) THEN tls
    ELSE IF v.selectedAutomationTimelineIndex >= Len(tls) THEN tls
    ELSE LET i == v.selectedAutomationTimelineIndex + 1
         IN IF v.selectedAutomationLane = "Volume"
            THEN [tls EXCEPT ![i].volumeAutomation = erasePoint(@, v.selectedAutomationPointId)]
            ELSE [tls EXCEPT ![i].panAutomation = erasePoint(@, v.selectedAutomationPointId)]

\* keyPressed lines 2106-2110: Delete with an automation point selected
KeyDeleteAutomationPoint ==
    /\ hasSelectedAutomationPoint(view)
    /\ Did("deleteAutomationPoint")
    /\ undoSnapshots' = pushUndoState(undoSnapshots, timelines, markerHeap, isRestoring)
    /\ timelines' = deleteSelectedAutomationPoint(timelines, view)
    /\ view' = IF view.selectedAutomationTimelineIndex >= Len(timelines) THEN view
               ELSE [view EXCEPT !.selectedAutomationLane = "None",
                                 !.selectedAutomationPointId = -1,
                                 !.selectedAutomationTimelineIndex = -1]
    /\ UNCHANGED << markerHeap, isRestoring, selectedTimelineIndex, copiedMarkers, projectFile,
                    playVars, threadVars, opBase >>

\* TimelineView::deleteSelectedRepeatMarkerPublic: does it remove a marker?
canDeleteRepeatMarker(tls, v) ==
    /\ hasSelectedRepeatMarker(v)
    /\ v.selectedRepeatMarkerTimelineIndex < Len(tls)
    /\ v.selectedRepeatMarkerIndex < Len(TL(tls, v.selectedRepeatMarkerTimelineIndex).repeatMarkers)

\* keyPressed lines 2111-2115: Delete with a repeat marker selected
KeyDeleteRepeatMarker ==
    /\ ~hasSelectedAutomationPoint(view)
    /\ hasSelectedRepeatMarker(view)
    /\ Did("deleteRepeatMarker")
    /\ undoSnapshots' = pushUndoState(undoSnapshots, timelines, markerHeap, isRestoring)
    /\ IF canDeleteRepeatMarker(timelines, view)
       THEN /\ timelines' = [timelines EXCEPT
                               ![view.selectedRepeatMarkerTimelineIndex + 1].repeatMarkers =
                                   removeAt(@, view.selectedRepeatMarkerIndex)]
            /\ view' = [view EXCEPT !.selectedRepeatMarkerIndex = -1,
                                    !.selectedRepeatMarkerTimelineIndex = -1]
       ELSE UNCHANGED << timelines, view >>
    /\ UNCHANGED << markerHeap, isRestoring, selectedTimelineIndex, copiedMarkers, projectFile,
                    playVars, threadVars, opBase >>

\* keyPressed lines 2116-2120 and deleteSelectedTimeline: Delete with no marker
\* selected removes the selected timeline and destroys its Markers; pushUndoState
\* runs in keyPressed and again in deleteSelectedTimeline
KeyDeleteTimeline ==
    /\ ~hasSelectedAutomationPoint(view)
    /\ ~hasSelectedRepeatMarker(view)
    /\ view.selectedMarkers = <<>>
    /\ Did("deleteTimeline")
    /\ LET once == pushUndoState(undoSnapshots, timelines, markerHeap, isRestoring)
           index == selectedTimelineIndex
       IN IF Len(timelines) = 0
          THEN /\ undoSnapshots' = once
               /\ UNCHANGED << timelines, markerHeap, selectedTimelineIndex >>
          ELSE /\ undoSnapshots' = pushUndoState(once, timelines, markerHeap, isRestoring)
               /\ IF ~ValidIndex(index)
                  THEN UNCHANGED << timelines, markerHeap, selectedTimelineIndex >>
                  ELSE /\ timelines' = removeAt(timelines, index)
                       /\ markerHeap' = [id \in MarkerIds |->
                             IF contains(TL(timelines, index).markers, id)
                             THEN FreedMarker ELSE markerHeap[id]]
                       /\ selectedTimelineIndex' =
                             IF Len(timelines) - 1 = 0 THEN 0
                             ELSE selectTimeline(Len(timelines) - 1,
                                                 jmin(index, Len(timelines) - 2))
    /\ UNCHANGED << isRestoring, view, copiedMarkers, projectFile, playVars, threadVars, opBase >>

\* keyPressed lines 2121-2125 and deleteSelectedMarkers: Delete with markers
\* selected destroys them; pushUndoState runs in keyPressed and again in
\* deleteSelectedMarkers
KeyDeleteMarkers ==
    /\ ~hasSelectedAutomationPoint(view)
    /\ ~hasSelectedRepeatMarker(view)
    /\ view.selectedMarkers # <<>>
    /\ Did("deleteMarkers")
    /\ LET once == pushUndoState(undoSnapshots, timelines, markerHeap, isRestoring)
           doomed == SeqRange(view.selectedMarkers) \cap OwnedIds(timelines)
           keepOf(markers) ==
               LET keep == { i \in 1..Len(markers) : markers[i] \notin doomed }
                   nth(n) == CHOOSE i \in keep : Cardinality({ j \in keep : j < i }) = n - 1
               IN [n \in 1..Cardinality(keep) |-> markers[nth(n)]]
       IN /\ undoSnapshots' = pushUndoState(once, timelines, markerHeap, isRestoring)
          /\ timelines' = [i \in 1..Len(timelines) |->
                              [timelines[i] EXCEPT !.markers = keepOf(@)]]
          /\ markerHeap' = [id \in MarkerIds |->
                              IF id \in doomed THEN FreedMarker ELSE markerHeap[id]]
    /\ view' = [view EXCEPT !.selectedMarkers = <<>>,
                            !.lastSelectedMarker = NoMarker,
                            !.lastSelectedMarkerTimelineIndex = -1]
    /\ UNCHANGED << isRestoring, selectedTimelineIndex, copiedMarkers, projectFile, playVars,
                    threadVars, opBase >>

\* history: what kind of undo this is
undoOp ==
    IF undoSnapshots = << >> THEN "undoEmpty"
    ELSE IF lastOp = "push" THEN "undoOfPush"
    ELSE "undo"

UndoOps == {"undo", "undoOfPush", "undoEmpty"}

\* an undo that restores an empty model when the stack is empty
undoSnapshotOfNothing ==
    /\ Did(undoOp)
    /\ IF undoSnapshots = <<>>
       THEN /\ timelines' = << >>
            /\ markerHeap' = [m \in MarkerIds |-> FreedMarker]
            /\ selectedTimelineIndex' = 0
            /\ UNCHANGED << undoSnapshots, isRestoring >>
       ELSE LET snap == undoSnapshots[Len(undoSnapshots)]
            IN /\ undoSnapshots' = SubSeq(undoSnapshots, 1, Len(undoSnapshots) - 1)
               /\ timelines' = restoreModelTimelines(snap)
               /\ markerHeap' = restoreModelHeap(snap)
               /\ selectedTimelineIndex' =
                     selectTimeline(Len(snap.timelines),
                                    IF Len(snap.timelines) > 0
                                    THEN jlimit(0, Len(snap.timelines) - 1, selectedTimelineIndex)
                                    ELSE 0)
               /\ isRestoring' = FALSE
    /\ UNCHANGED << view, copiedMarkers, projectFile, playVars, threadVars, opBase >>

\* an undo that returns with isRestoring still set
undoSnapshotStillRestoring ==
    /\ Did(undoOp)
    /\ IF undoSnapshots = <<>>
       THEN UNCHANGED << timelines, markerHeap, undoSnapshots, isRestoring,
                         selectedTimelineIndex >>
       ELSE LET snap == undoSnapshots[Len(undoSnapshots)]
            IN /\ undoSnapshots' = SubSeq(undoSnapshots, 1, Len(undoSnapshots) - 1)
               /\ timelines' = restoreModelTimelines(snap)
               /\ markerHeap' = restoreModelHeap(snap)
               /\ selectedTimelineIndex' =
                     selectTimeline(Len(snap.timelines),
                                    IF Len(snap.timelines) > 0
                                    THEN jlimit(0, Len(snap.timelines) - 1, selectedTimelineIndex)
                                    ELSE 0)
               /\ isRestoring' = TRUE
    /\ UNCHANGED << view, copiedMarkers, projectFile, playVars, threadVars, opBase >>

\* MainComponent::undoSnapshot (Cmd-Z): with an empty stack nothing happens, else
\* the last snapshot is popped and restored between isRestoring = true and false
undoSnapshot ==
    /\ Did(undoOp)
    /\ IF undoSnapshots = <<>>
       THEN UNCHANGED << timelines, markerHeap, undoSnapshots, isRestoring,
                         selectedTimelineIndex >>
       ELSE LET snap == undoSnapshots[Len(undoSnapshots)]
            IN /\ undoSnapshots' = SubSeq(undoSnapshots, 1, Len(undoSnapshots) - 1)
               /\ timelines' = restoreModelTimelines(snap)
               /\ markerHeap' = restoreModelHeap(snap)
               /\ selectedTimelineIndex' =
                     selectTimeline(Len(snap.timelines),
                                    IF Len(snap.timelines) > 0
                                    THEN jlimit(0, Len(snap.timelines) - 1, selectedTimelineIndex)
                                    ELSE 0)
               /\ isRestoring' = FALSE
    /\ UNCHANGED << view, copiedMarkers, projectFile, playVars, threadVars, opBase >>

\* keyPressed lines 2160-2165: the S key toggles the scissors tool
KeyScissors ==
    /\ Did("scissors")
    /\ view' = [view EXCEPT !.scissorsEnabled = ~@]
    /\ UNCHANGED << timelines, markerHeap, undoSnapshots, isRestoring,
                    selectedTimelineIndex, copiedMarkers, projectFile, playVars, threadVars, opBase >>

\* addTrackButton.onClick
AddTrack ==
    /\ Len(timelines) < MaxTimelines
    /\ Did("addTrack")
    /\ undoSnapshots' = pushUndoState(undoSnapshots, timelines, markerHeap, isRestoring)
    /\ timelines' = Append(timelines, addTimeline(120, 8000))
    /\ selectedTimelineIndex' = selectTimeline(Len(timelines) + 1, Len(timelines))
    /\ UNCHANGED << markerHeap, isRestoring, view, copiedMarkers, projectFile, playVars, threadVars,
                    opBase >>

\* MainComponent::getZoomFactorForTimeline times 1: duration / viewDuration limited
\* to [1, 16], applied to a new duration (applyDurationFromInspector line 2719)
viewDurationAfter(timeline, duration) ==
    IF timeline.durationSeconds <= 0 \/ timeline.viewDurationSeconds <= 0 THEN duration
    ELSE IF timeline.durationSeconds <= timeline.viewDurationSeconds THEN duration
    ELSE IF timeline.durationSeconds >= 16 * timeline.viewDurationSeconds THEN duration \div 16
    ELSE (duration * timeline.viewDurationSeconds) \div timeline.durationSeconds

\* MainComponent::clampViewToDuration
clampViewToDuration(timeline) ==
    LET viewDur == IF timeline.viewDurationSeconds <= 0
                      \/ timeline.viewDurationSeconds > timeline.durationSeconds
                   THEN timeline.durationSeconds
                   ELSE timeline.viewDurationSeconds
        maxStart == jmax(0, timeline.durationSeconds - viewDur)
    IN [timeline EXCEPT !.viewDurationSeconds = viewDur,
                        !.viewStartSeconds = jlimit(0, maxStart, timeline.viewStartSeconds)]

\* MainComponent::comboIdToBeatUnit
comboIdToBeatUnit(id) ==
    IF id = 1 THEN 1 ELSE IF id = 2 THEN 2 ELSE IF id = 3 THEN 4
    ELSE IF id = 4 THEN 8 ELSE IF id = 5 THEN 16 ELSE 4

\* the inspector edits have this in common: the selected timeline is replaced and,
\* where the source does so, the re-render sweep over its markers follows
InspectorEdit(op, newTimeline, sweep) ==
    /\ Len(timelines) > 0
    /\ ValidIndex(selectedTimelineIndex)
    /\ Did(op)
    /\ timelines' = [timelines EXCEPT ![selectedTimelineIndex + 1] = newTimeline]
    /\ jobQueue' = IF sweep
                   THEN rerenderTimelineMarkersIfNeeded(jobQueue, timelines', markerHeap,
                                                        deviceSampleRate, selectedTimelineIndex)
                   ELSE jobQueue
    /\ Len(jobQueue') <= MaxQueue
    /\ UNCHANGED << markerHeap, undoSnapshots, isRestoring, selectedTimelineIndex, view,
                    copiedMarkers, projectFile, playVars, workers, audio, lastCallback, opBase >>

\* MainComponent::applyTempoFromInspector
applyTempoFromInspector(tempo) ==
    InspectorEdit("applyTempo",
                  [TL(timelines, selectedTimelineIndex) EXCEPT
                      !.tempoBpm = jlimit(1, 400, tempo)],
                  TRUE)

\* MainComponent::applyDurationFromInspector
applyDurationFromInspector(duration) ==
    InspectorEdit("applyDuration",
                  LET timeline == TL(timelines, selectedTimelineIndex)
                      d == jlimit(250, 3600000, duration)
                  IN clampViewToDuration(
                        [timeline EXCEPT !.durationSeconds = d,
                                         !.viewDurationSeconds = viewDurationAfter(timeline, d)]),
                  TRUE)

\* MainComponent::applyVolumeFromInspector
applyVolumeFromInspector(volume) ==
    InspectorEdit("applyVolume",
                  [TL(timelines, selectedTimelineIndex) EXCEPT
                      !.volume = jlimit(0, 100, volume)],
                  FALSE)

\* MainComponent::applyPanFromInspector
applyPanFromInspector(pan) ==
    InspectorEdit("applyPan",
                  [TL(timelines, selectedTimelineIndex) EXCEPT
                      !.pan = jlimit(-100, 100, pan)],
                  FALSE)

\* MainComponent::applyTimeSignatureFromInspector
applyTimeSignatureFromInspector(beatsPerBar, comboId) ==
    InspectorEdit("applyTimeSignature",
                  LET beatUnit == comboIdToBeatUnit(comboId)
                  IN [TL(timelines, selectedTimelineIndex) EXCEPT
                         !.beatsPerBar = jlimit(1, 32, beatsPerBar),
                         !.beatUnit = IF beatUnit > 0 THEN beatUnit ELSE @],
                  TRUE)

\* MainComponent::applyMarkerRenderBarsFromInspector
applyMarkerRenderBarsFromInspector(text) ==
    /\ Len(timelines) > 0
    /\ view.lastSelectedMarker # NoMarker
    /\ markerHeap[view.lastSelectedMarker].live
    /\ LET bars == IF text <= 0 THEN 0 ELSE jlimit(1, 999, text)
       IN /\ markerHeap[view.lastSelectedMarker].renderBars # bars
          /\ Did("applyRenderBars")
          /\ undoSnapshots' = pushUndoState(undoSnapshots, timelines, markerHeap, isRestoring)
          /\ markerHeap' = [markerHeap EXCEPT ![view.lastSelectedMarker].renderBars = bars]
          /\ jobQueue' = rerenderTimelineMarkersIfNeeded(jobQueue, timelines, markerHeap',
                                                         deviceSampleRate, selectedTimelineIndex)
          /\ Len(jobQueue') <= MaxQueue
    /\ UNCHANGED << timelines, isRestoring, selectedTimelineIndex, view, copiedMarkers, projectFile,
                    playVars, workers, audio, lastCallback, opBase >>

(***************************************************************************)
(* Persistence: serializeModel, deserializeModel, loadProject              *)
(***************************************************************************)
\* the files that exist on disk (juce::File::existsAsFile)
ExistingFiles == {"a.py", "alva_b.py"}

existsAsFile(file) == file \in ExistingFiles

\* MainComponent::serializeModel: the document of a model
serializeMarker(marker) ==
    [isObject |-> TRUE,
     startTimeSeconds |-> marker.startTimeSeconds,
     pythonPath |-> marker.pythonFile,
     fadeInSeconds |-> marker.fadeInSeconds,
     fadeOutSeconds |-> marker.fadeOutSeconds,
     renderBars |-> marker.renderBars]

serializeTimeline(t, heap) ==
    [isObject |-> TRUE,
     tempoBpm |-> t.tempoBpm,
     durationSeconds |-> t.durationSeconds,
     beatsPerBar |-> t.beatsPerBar,
     beatUnit |-> t.beatUnit,
     viewStartSeconds |-> t.viewStartSeconds,
     viewDurationSeconds |-> t.viewDurationSeconds,
     volume |-> t.volume,
     pan |-> t.pan,
     zoomY |-> t.zoomY,
     automationZoomY |-> t.automationZoomY,
     automationExpanded |-> t.automationExpanded,
     repeatMarkers |-> t.repeatMarkers,
     volumeAutomation |-> t.volumeAutomation,
     panAutomation |-> t.panAutomation,
     markers |-> [k \in 1..Len(t.markers) |-> serializeMarker(heap[t.markers[k]])]]

serializeModel(tls, heap) ==
    [kind |-> "object",
     hasTimelines |-> TRUE,
     timelines |-> [i \in 1..Len(tls) |-> serializeTimeline(tls[i], heap)]]

IsObject(entry) == entry.isObject

\* deserializeModel lines 3017-3117: entries that are not objects are skipped
docTimelines(doc) == SelectSeq(doc.timelines, IsObject)

docMarkers(td) == SelectSeq(td.markers, IsObject)

docMarkersBefore(tds, i) == SeqSum([j \in 1..(i - 1) |-> Len(docMarkers(tds[j]))])

\* deserializeModel: the Marker built from one marker entry
deserializeMarker(md) ==
    [NewMarker EXCEPT
        !.startTimeSeconds = md.startTimeSeconds,
        !.pythonFile = md.pythonPath,
        !.fadeInSeconds = md.fadeInSeconds,
        !.fadeOutSeconds = md.fadeOutSeconds,
        !.renderBars = md.renderBars]

\* deserializeModel: the Timeline built from one timeline entry
deserializeTimeline(tds, i) ==
    LET td == tds[i]
    IN [addTimeline(td.tempoBpm, td.durationSeconds) EXCEPT
           !.beatsPerBar = td.beatsPerBar,
           !.beatUnit = td.beatUnit,
           !.viewStartSeconds = td.viewStartSeconds,
           !.viewDurationSeconds = td.viewDurationSeconds,
           !.volume = td.volume,
           !.pan = td.pan,
           !.zoomY = td.zoomY,
           !.automationZoomY = td.automationZoomY,
           !.automationExpanded = td.automationExpanded,
           !.repeatMarkers = td.repeatMarkers,
           !.volumeAutomation = td.volumeAutomation,
           !.panAutomation = td.panAutomation,
           !.markers = [k \in 1..Len(docMarkers(td)) |-> docMarkersBefore(tds, i) + k]]

deserializeTimelines(doc) ==
    [i \in 1..Len(docTimelines(doc)) |-> deserializeTimeline(docTimelines(doc), i)]

deserializeHeap(doc) ==
    LET tds == docTimelines(doc)
    IN [m \in MarkerIds |->
          IF \E i \in 1..Len(tds) : \E k \in 1..Len(docMarkers(tds[i])) :
                 docMarkersBefore(tds, i) + k = m
          THEN LET i == CHOOSE i \in 1..Len(tds) :
                          \E k \in 1..Len(docMarkers(tds[i])) : docMarkersBefore(tds, i) + k = m
               IN deserializeMarker(docMarkers(tds[i])[m - docMarkersBefore(tds, i)])
          ELSE FreedMarker]

\* deserializeModel lines 3105-3113: a render job for every loaded Marker whose
\* python file exists, markers m..end in address order (the order of the document)
RECURSIVE deserializeJobs(_, _, _, _)
deserializeJobs(queue, tls, heap, m) ==
    IF m > MaxMarkers THEN queue
    ELSE IF ~heap[m].live THEN deserializeJobs(queue, tls, heap, m + 1)
    ELSE LET i == CHOOSE i \in 1..Len(tls) : contains(tls[i].markers, m)
             q == IF existsAsFile(heap[m].pythonFile)
                  THEN renderMarker(queue, m, deviceSampleRate,
                                    getRenderDurationSecondsForMarker(tls[i], heap[m]),
                                    tls[i].tempoBpm)
                  ELSE queue
         IN deserializeJobs(q, tls, heap, m + 1)

\* does deserializeModel accept the document (it returns true)?
deserializeAccepts(doc) == doc.kind = "object" /\ doc.hasTimelines

\* loadProject's file chooser callback with the parsed document: a void document
\* (unparseable text) is dropped; otherwise pushUndoState, then deserializeModel
loadProject(doc) ==
    /\ doc.kind # "void"
    /\ Did(IF deserializeAccepts(doc) THEN "load" ELSE "push")
    /\ undoSnapshots' = pushUndoState(undoSnapshots, timelines, markerHeap, isRestoring)
    /\ IF deserializeAccepts(doc)
       THEN /\ timelines' = deserializeTimelines(doc)
            /\ markerHeap' = deserializeHeap(doc)
            /\ jobQueue' = deserializeJobs(jobQueue, timelines', markerHeap', 1)
            /\ selectedTimelineIndex' = selectTimeline(Len(timelines'), 0)
       ELSE UNCHANGED << timelines, markerHeap, jobQueue, selectedTimelineIndex >>
    /\ Len(jobQueue') <= MaxQueue
    /\ UNCHANGED << isRestoring, view, copiedMarkers, projectFile, playVars, workers, audio,
                    lastCallback, opBase >>

\* loadProject's callback when JSON::parse yields void: nothing happens
loadProjectVoid(doc) ==
    /\ doc.kind = "void"
    /\ Did("loadVoid")
    /\ UNCHANGED << timelines, markerHeap, undoSnapshots, isRestoring,
                    selectedTimelineIndex, view, copiedMarkers, projectFile, playVars, threadVars, opBase >>

(***************************************************************************)
(* Pool threads: PythonRenderer::RenderJob::runJob, one action per step    *)
(***************************************************************************)
Workers == 1..PoolThreads

NoCallback == [marker |-> NoMarker, success |-> FALSE, reason |-> "none", timedOut |-> FALSE]

\* what the external renderer writes for a complete render: mono,
\* durationSeconds * sampleRate samples
RenderedSamples(durationSeconds, sampleRate) ==
    [s \in 1..((durationSeconds * sampleRate) \div 1000) |-> IF s % 2 = 1 THEN 80 ELSE -40]

\* the readable part of the output file when the renderer is still writing
PartialSamples(durationSeconds, sampleRate) ==
    SubSeq(RenderedSamples(durationSeconds, sampleRate), 1,
           Len(RenderedSamples(durationSeconds, sampleRate)) \div 2)

\* the pool hands the oldest queued job to a free thread
JobStart(w) ==
    /\ workers[w].pc = "idle"
    /\ jobQueue # <<>>
    /\ workers' = [workers EXCEPT ![w] = [Head(jobQueue) EXCEPT !.pc = "begin"]]
    /\ jobQueue' = Tail(jobQueue)
    /\ UNCHANGED << timelines, markerHeap, undoSnapshots, isRestoring,
                    selectedTimelineIndex, view, copiedMarkers, projectFile, playVars, audio,
                    lastCallback, lastOp, opBase, opsLeft >>

\* a job returns: the callback is invoked and the pool thread is free again
jobReturns(w, success, reason, timedOut) ==
    /\ workers' = [workers EXCEPT ![w] = Idle]
    /\ lastCallback' = [marker |-> workers[w].marker, success |-> success,
                        reason |-> reason, timedOut |-> timedOut]

\* a job that drops the Marker's buffer before it renders
beginRenderDroppingBuffer(marker) ==
    [marker EXCEPT !.renderedWavFile = "render.wav", !.renderedBuffer = NoBuffer]

\* runJob lines 49-51: the scratch output path is stored in the Marker
beginRender(marker) == [marker EXCEPT !.renderedWavFile = "render.wav"]

\* runJob lines 42-68: the source check (the file may have been removed since the
\* Marker was added; the path read from a destroyed Marker may be any), the output
\* path, the process start
JobBegin(w, present, started) ==
    /\ workers[w].pc = "begin"
    /\ (present /\ markerHeap[workers[w].marker].live)
          => existsAsFile(markerHeap[workers[w].marker].pythonFile)
    /\ LET m == workers[w].marker
       IN IF ~present
          THEN /\ jobReturns(w, FALSE, "Python file does not exist", FALSE)
               /\ UNCHANGED markerHeap
          ELSE /\ markerHeap' = [markerHeap EXCEPT ![m] = beginRender(@)]
               /\ IF started
                  THEN /\ workers' = [workers EXCEPT ![w].pc = "waiting"]
                       /\ UNCHANGED lastCallback
                  ELSE jobReturns(w, FALSE, "Failed to start python process", FALSE)
    /\ UNCHANGED << timelines, undoSnapshots, isRestoring, selectedTimelineIndex, view,
                    copiedMarkers, projectFile, playVars, jobQueue, audio, lastOp, opBase, opsLeft >>

\* what the output file holds when waitForProcessToFinish returns: nothing, bytes no
\* reader accepts, the whole render, or (the renderer still running) a readable part
FileStates(timedOut) ==
    IF timedOut THEN {"missing", "unreadable", "partial"}
    ELSE {"missing", "unreadable", "complete"}

\* runJob lines 70-91: the wait (its result is not looked at), the file check, the
\* reader and the read into a fresh buffer
JobWait(w, timedOut, file) ==
    /\ workers[w].pc = "waiting"
    /\ file \in FileStates(timedOut)
    /\ IF file = "missing"
       THEN jobReturns(w, FALSE, "Python did not produce a WAV file", timedOut)
       ELSE IF file = "unreadable"
       THEN jobReturns(w, FALSE, "Failed to read rendered WAV", timedOut)
       ELSE /\ workers' = [workers EXCEPT
                  ![w].pc = "storeRate",
                  ![w].timedOut = timedOut,
                  ![w].rate = workers[w].sampleRate,
                  ![w].buffer = MakeBuffer(<< IF file = "partial"
                                              THEN PartialSamples(workers[w].durationSeconds,
                                                                   workers[w].sampleRate)
                                              ELSE RenderedSamples(workers[w].durationSeconds,
                                                                    workers[w].sampleRate) >>)]
            /\ UNCHANGED lastCallback
    /\ UNCHANGED << timelines, markerHeap, undoSnapshots, isRestoring,
                    selectedTimelineIndex, view, copiedMarkers, projectFile, playVars, jobQueue,
                    audio, lastOp, opBase, opsLeft >>

\* runJob line 92: markerRef.renderedSampleRate = reader->sampleRate
JobStoreRate(w) ==
    /\ workers[w].pc = "storeRate"
    /\ markerHeap' = [markerHeap EXCEPT
                         ![workers[w].marker].renderedSampleRate = workers[w].rate,
                         ![workers[w].marker].writes = @ + 1]
    /\ workers' = [workers EXCEPT ![w].pc = "storeBuffer"]
    /\ UNCHANGED << timelines, undoSnapshots, isRestoring, selectedTimelineIndex, view,
                    copiedMarkers, projectFile, playVars, jobQueue, audio, lastCallback, lastOp,
                    opBase, opsLeft >>

\* runJob line 93: markerRef.renderedBuffer = std::move(buffer)
JobStoreBuffer(w) ==
    /\ workers[w].pc = "storeBuffer"
    /\ markerHeap' = [markerHeap EXCEPT
                         ![workers[w].marker].renderedBuffer = workers[w].buffer,
                         ![workers[w].marker].writes = @ + 1]
    /\ workers' = [workers EXCEPT ![w].pc = "finish"]
    /\ UNCHANGED << timelines, undoSnapshots, isRestoring, selectedTimelineIndex, view,
                    copiedMarkers, projectFile, playVars, jobQueue, audio, lastCallback, lastOp,
                    opBase, opsLeft >>

\* runJob lines 94-123: the three stamps and the waveform summary
finishRender(marker, job) ==
    [marker EXCEPT !.lastRenderedTempoBpm = job.tempoBpm,
                   !.lastRenderedDurationSeconds = job.durationSeconds,
                   !.lastRenderedPythonPath = marker.pythonFile,
                   !.waveform = recomputeWaveform(marker.renderedBuffer)]

\* runJob lines 94-128: stamps, waveform, callback(true)
JobFinish(w) ==
    /\ workers[w].pc = "finish"
    /\ markerHeap' = [markerHeap EXCEPT ![workers[w].marker] = finishRender(@, workers[w])]
    /\ jobReturns(w, TRUE, "Render complete", workers[w].timedOut)
    /\ UNCHANGED << timelines, undoSnapshots, isRestoring, selectedTimelineIndex, view,
                    copiedMarkers, projectFile, playVars, jobQueue, audio, lastOp, opBase, opsLeft >>

(***************************************************************************)
(* Transport buttons                                                       *)
(***************************************************************************)
\* playButton.onClick
Play ==
    /\ Did("play")
    /\ playing' = ~playing
    /\ UNCHANGED << timelines, markerHeap, undoSnapshots, isRestoring,
                    selectedTimelineIndex, view, copiedMarkers, projectFile, playheadSeconds,
                    threadVars, opBase >>

\* stopButton.onClick
Stop ==
    /\ Did("stop")
    /\ playing' = FALSE
    /\ playheadSeconds' = 0
    /\ UNCHANGED << timelines, markerHeap, undoSnapshots, isRestoring,
                    selectedTimelineIndex, view, copiedMarkers, projectFile, threadVars, opBase >>

(***************************************************************************)
(* Audio thread: MainComponent::getNextAudioBlock, one action per read of  *)
(* a Marker; a block is BlockSamples samples long                          *)
(***************************************************************************)
BlockSamples == 1
MaxPlayhead == 1000

\* modulo of a time that is not negative (std::fmod)
fmod(a, b) == a % b

\* a time loop that repeats the region after a single repeat marker
getLoopedLocalTimeLoopingAfter(timeSeconds, timeline) ==
    IF timeline.durationSeconds <= 0 THEN 0
    ELSE IF Len(timeline.repeatMarkers) = 1
    THEN LET loopStart == timeline.repeatMarkers[1]
         IN IF loopStart > 0 /\ timeSeconds >= loopStart
                /\ timeline.durationSeconds > loopStart
            THEN loopStart + fmod(timeSeconds - loopStart,
                                  timeline.durationSeconds - loopStart)
            ELSE jlimit(0, timeline.durationSeconds, timeSeconds)
    ELSE IF Len(timeline.repeatMarkers) >= 2
    THEN LET loopStart == timeline.repeatMarkers[1]
             loopEnd == timeline.repeatMarkers[2]
         IN IF loopEnd > loopStart /\ timeSeconds >= loopStart
            THEN loopStart + fmod(timeSeconds - loopStart, loopEnd - loopStart)
            ELSE jlimit(0, timeline.durationSeconds, timeSeconds)
    ELSE fmod(timeSeconds, timeline.durationSeconds)

getLoopedLocalTime(timeSeconds, timeline) ==
    IF timeline.durationSeconds <= 0 THEN 0
    ELSE IF Len(timeline.repeatMarkers) = 1
    THEN LET loopStart == timeline.repeatMarkers[1]
         IN IF loopStart > 0 /\ timeSeconds >= loopStart
            THEN fmod(timeSeconds, loopStart)
            ELSE jlimit(0, timeline.durationSeconds, timeSeconds)
    ELSE IF Len(timeline.repeatMarkers) >= 2
    THEN LET loopStart == timeline.repeatMarkers[1]
             loopEnd == timeline.repeatMarkers[2]
         IN IF loopEnd > loopStart /\ timeSeconds >= loopStart
            THEN loopStart + fmod(timeSeconds - loopStart, loopEnd - loopStart)
            ELSE jlimit(0, timeline.durationSeconds, timeSeconds)
    ELSE fmod(timeSeconds, timeline.durationSeconds)

AudioIdle == [pc |-> "idle", baseTime |-> 0, i |-> 0, time |-> 0, t |-> 0, k |-> 1,
              rate |-> 0, sourceSample |-> 0,
              epoch |-> 0, sameBuffer |-> TRUE, sampled |-> FALSE, outOfBounds |-> FALSE,
              mixed |-> FALSE, localTime |-> 0, volEval |-> 0, panEval |-> 0,
              vol |-> 0, pan |-> 0, leftGain |-> 0, rightGain |-> 0, silent |-> FALSE,
              fade |-> << 1, 1 >>]

audioFrame == << timelines, markerHeap, undoSnapshots, isRestoring, selectedTimelineIndex,
                 view, copiedMarkers, projectFile, playing, jobQueue, workers, lastCallback, lastOp,
                 opBase, opsLeft >>

\* lines 2023-2031: a block begins; nothing is mixed while not playing
AudioBegin ==
    /\ audio.pc = "idle"
    /\ playing
    /\ playheadSeconds < MaxPlayhead
    /\ audio' = [AudioIdle EXCEPT !.pc = "seek", !.baseTime = playheadSeconds,
                                  !.time = playheadSeconds]
    /\ UNCHANGED << audioFrame, playheadSeconds >>

\* lines 2023-2026: a block while not playing: the output is cleared and the
\* callback returns
AudioSilent ==
    /\ audio.pc = "idle"
    /\ ~playing
    /\ audio' = [AudioIdle EXCEPT !.silent = TRUE]
    /\ UNCHANGED << audioFrame, playheadSeconds >>

\* lines 2032-2062 and 2083-2086: the next sample of the block after the last
\* timeline, else the walk to the next Marker with a buffer that has begun at the
\* block's time; its renderedSampleRate is read and the sample index computed
AudioSeek ==
    /\ audio.pc = "seek"
    /\ IF audio.t >= Len(timelines)
       THEN IF audio.i + 1 < BlockSamples
            THEN audio' = [audio EXCEPT
                    !.i = @ + 1,
                    !.time = audio.baseTime + ((audio.i + 1) * 1000) \div deviceSampleRate,
                    !.t = 0,
                    !.k = 1]
            ELSE audio' = [audio EXCEPT !.pc = "end"]
       ELSE LET timeline == TL(timelines, audio.t)
            IN IF timeline.durationSeconds <= 0 \/ audio.k > Len(timeline.markers)
               THEN audio' = [audio EXCEPT !.t = @ + 1, !.k = 1]
               ELSE LET m == timeline.markers[audio.k]
                        marker == markerHeap[m]
                        relTime == getLoopedLocalTime(audio.time, timeline)
                                      - marker.startTimeSeconds
                    IN IF ~marker.renderedBuffer.present \/ relTime < 0
                       THEN audio' = [audio EXCEPT !.k = @ + 1]
                       ELSE audio' = [audio EXCEPT
                               !.pc = "check",
                               !.rate = marker.renderedSampleRate,
                               !.sourceSample = (relTime * marker.renderedSampleRate) \div 1000,
                               !.sameBuffer = TRUE,
                               !.sampled = FALSE,
                               !.outOfBounds = FALSE]
    /\ UNCHANGED << audioFrame, playheadSeconds >>

\* line 2063: the sample index is checked against the buffer's length
AudioCheck ==
    /\ audio.pc = "check"
    /\ LET m == TL(timelines, audio.t).markers[audio.k]
           marker == markerHeap[m]
       IN IF audio.sourceSample < 0
             \/ audio.sourceSample >= getNumSamples(marker.renderedBuffer)
          THEN audio' = [audio EXCEPT !.pc = "seek", !.k = @ + 1]
          ELSE audio' = [audio EXCEPT !.pc = "read", !.epoch = marker.writes]
    /\ UNCHANGED << audioFrame, playheadSeconds >>

\* lines 2069-2077: the fade gain of a sample as the fraction << numerator,
\* denominator >>
fadeGain(marker, sourceSample) ==
    LET total == getNumSamples(marker.renderedBuffer)
        fadeInSamp == RoundDiv(marker.fadeInSeconds * marker.renderedSampleRate, 1000)
        fadeOutSamp == RoundDiv(marker.fadeOutSeconds * marker.renderedSampleRate, 1000)
        fadedIn == IF fadeInSamp > 0 /\ sourceSample < fadeInSamp
                   THEN << sourceSample, fadeInSamp >>
                   ELSE << 1, 1 >>
        fadedOut == << total - sourceSample, fadeOutSamp >>
    IN IF fadeOutSamp > 0 /\ sourceSample > total - fadeOutSamp
       THEN IF fadedOut[1] * fadedIn[2] < fadedIn[1] * fadedOut[2] THEN fadedOut ELSE fadedIn
       ELSE fadedIn

\* lines 2066-2079: the sample is read from the buffer and faded
AudioRead ==
    /\ audio.pc = "read"
    /\ LET m == TL(timelines, audio.t).markers[audio.k]
           marker == markerHeap[m]
       IN audio' = [audio EXCEPT
             !.pc = "seek",
             !.k = @ + 1,
             !.sampled = TRUE,
             !.fade = fadeGain(marker, audio.sourceSample),
             !.outOfBounds = audio.sourceSample >= getNumSamples(marker.renderedBuffer),
             !.sameBuffer = (marker.writes = audio.epoch)]
    /\ UNCHANGED << audioFrame, playheadSeconds >>

\* an automation lane read as steps: the value of the last point passed
evalAutomationStepped(points, timeSeconds, defaultValue) ==
    IF points = << >> THEN defaultValue
    ELSE IF timeSeconds <= points[1].timeSeconds THEN points[1].value
    ELSE IF timeSeconds >= points[Len(points)].timeSeconds THEN points[Len(points)].value
    ELSE LET i == CHOOSE i \in 2..Len(points) :
                     /\ timeSeconds <= points[i].timeSeconds
                     /\ \A j \in 2..(i - 1) : timeSeconds > points[j].timeSeconds
         IN points[i - 1].value

\* MainComponent::evalAutomation (values in hundredths; the division is exact for
\* the points and times of the model)
evalAutomation(points, timeSeconds, defaultValue) ==
    IF points = << >> THEN defaultValue
    ELSE IF timeSeconds <= points[1].timeSeconds THEN points[1].value
    ELSE IF timeSeconds >= points[Len(points)].timeSeconds THEN points[Len(points)].value
    ELSE LET i == CHOOSE i \in 2..Len(points) :
                     /\ timeSeconds <= points[i].timeSeconds
                     /\ \A j \in 2..(i - 1) : timeSeconds > points[j].timeSeconds
             a == points[i - 1]
             b == points[i]
             span == b.timeSeconds - a.timeSeconds
         IN IF span <= 0 THEN b.value
            ELSE a.value + ((timeSeconds - a.timeSeconds) * (b.value - a.value)) \div span

\* gains with the two channels exchanged
panGainExchanged(vol, pan, right) ==
    vol * vol * (IF right THEN 100 - pan ELSE 100 + pan)

\* lines 2050-2051: vol * std::sqrt(0.5 * (1 - pan)) and vol * std::sqrt(0.5 * (1 + pan)).
\* vol and the root are not negative, so a gain is determined by its square, and it
\* is the square that is kept, in units of 1 / 2000000 (vol and pan in hundredths)
panGain(vol, pan, right) ==
    vol * vol * (IF right THEN 100 + pan ELSE 100 - pan)

\* lines 2034-2051, for the sample at the playhead and timeline t: the looped local
\* time, volume and pan from the lanes, the clamps and the two gains
AudioMix(t) ==
    /\ audio.pc = "idle"
    /\ playing
    /\ ValidIndex(t)
    /\ TL(timelines, t).durationSeconds > 0
    /\ LET timeline == TL(timelines, t)
           localTime == getLoopedLocalTime(playheadSeconds, timeline)
           volEval == evalAutomation(timeline.volumeAutomation, localTime, timeline.volume)
           panEval == evalAutomation(timeline.panAutomation, localTime, timeline.pan)
           pan == jlimit(-100, 100, panEval)
           vol == jlimit(0, 100, volEval)
       IN audio' = [audio EXCEPT
                       !.mixed = TRUE,
                       !.time = playheadSeconds,
                       !.t = t,
                       !.localTime = localTime,
                       !.volEval = volEval,
                       !.panEval = panEval,
                       !.vol = vol,
                       !.pan = pan,
                       !.leftGain = panGain(vol, pan, FALSE),
                       !.rightGain = panGain(vol, pan, TRUE)]
    /\ UNCHANGED << audioFrame, playheadSeconds >>

\* line 2089: the playhead advances by the block
\* a block that ends without advancing the playhead
AudioEndWithoutAdvance ==
    /\ audio.pc = "end"
    /\ audio' = [audio EXCEPT !.pc = "idle"]
    /\ playheadSeconds' = audio.baseTime
    /\ UNCHANGED audioFrame

\* line 2089: the block ends; the playhead read at its start is advanced by the block
AudioEnd ==
    /\ audio.pc = "end"
    /\ audio' = [audio EXCEPT !.pc = "idle"]
    /\ playheadSeconds' = audio.baseTime + (BlockSamples * 1000) \div deviceSampleRate
    /\ UNCHANGED audioFrame

(***************************************************************************)
(* Marker add and marker move                                              *)
(***************************************************************************)
\* mouseDown lines 306 and 334-364: a click on an empty place of the marker area:
\* handleAutomationMouseDown called beginEditOnce, then the file chooser opens
MouseDownEmpty(ti, t) ==
    /\ ~view.mouseIsDown
    /\ ValidIndex(ti)
    /\ ~view.scissorsEnabled
    /\ Did(IF view.editInProgress THEN "mouseDown" ELSE "push")
    /\ LET v1 == mouseDownSelect(view, ti)
       IN /\ undoSnapshots' = beginEditOnceStack(v1, undoSnapshots, timelines,
                                                 markerHeap, isRestoring)
          /\ view' = [beginEditOnceView(v1) EXCEPT
                         !.chooserTimelineIndex = ti,
                         !.chooserTimeSeconds = t,
                         !.mouseIsDown = TRUE]
    /\ selectedTimelineIndex' = selectTimeline(Len(timelines), ti)
    /\ opBase' = ModelValue(timelines, markerHeap)
    /\ UNCHANGED << timelines, markerHeap, isRestoring, copiedMarkers, projectFile, playVars, threadVars >>

\* lines 342-363: the file chooser's callback with an existing file: the new Marker
\* is added to the timeline and its render job is queued
FileChosen(file) ==
    /\ view.chooserTimelineIndex >= 0
    /\ ValidIndex(view.chooserTimelineIndex)
    /\ existsAsFile(file)
    /\ AllocId(markerHeap) # NoMarker
    /\ Did("addMarker")
    /\ LET ti == view.chooserTimelineIndex
           timeline == TL(timelines, ti)
           id == AllocId(markerHeap)
           marker == [NewMarker EXCEPT
                         !.startTimeSeconds = jlimit(0, timeline.durationSeconds,
                                                     view.chooserTimeSeconds),
                         !.pythonFile = file]
       IN /\ markerHeap' = [markerHeap EXCEPT ![id] = marker]
          /\ timelines' = [timelines EXCEPT ![ti + 1].markers = Append(@, id)]
          /\ jobQueue' = renderMarker(jobQueue, id, deviceSampleRate,
                                      getRenderDurationSecondsForMarker(timeline, marker),
                                      timeline.tempoBpm)
    /\ Len(jobQueue') <= MaxQueue
    /\ view' = [view EXCEPT !.chooserTimelineIndex = -1]
    /\ UNCHANGED << undoSnapshots, isRestoring, selectedTimelineIndex, copiedMarkers, projectFile,
                    playVars, workers, audio, lastCallback, opBase >>

\* mouseDrag lines 447-485, the cursor staying on the marker's timeline: the dragged
\* Marker follows the cursor
MouseDragMarker(t) ==
    /\ view.mouseIsDown
    /\ ~(view.draggingFadeMarker # NoMarker /\ view.draggingFadeTimelineIndex >= 0)
    /\ ~(view.draggingRepeatMarker /\ view.selectedRepeatMarkerTimelineIndex >= 0)
    /\ view.draggingAutomationLane = "None"
    /\ view.draggingMarker # NoMarker
    /\ view.dragTimelineIndex >= 0
    /\ ValidIndex(view.dragTimelineIndex)
    /\ markerHeap[view.draggingMarker].live
    /\ Did("markerDrag")
    /\ markerHeap' = [markerHeap EXCEPT ![view.draggingMarker].startTimeSeconds = t]
    /\ UNCHANGED << timelines, undoSnapshots, isRestoring, selectedTimelineIndex, view,
                    copiedMarkers, projectFile, playVars, threadVars, opBase >>

\* TimelineView::moveSelectedMarkersToTimeline: the timelines after the selected
\* Markers k..end that the source timeline owns went to the destination
RECURSIVE moveSelectedFrom(_, _, _, _, _)
moveSelectedFrom(tls, selected, fromIndex, toIndex, k) ==
    IF k > Len(selected) THEN tls
    ELSE LET marker == selected[k]
             moved == IF contains(TL(tls, fromIndex).markers, marker)
                      THEN [tls EXCEPT
                               ![fromIndex + 1].markers = removeObject(@, marker),
                               ![toIndex + 1].markers = Append(@, marker)]
                      ELSE tls
         IN moveSelectedFrom(moved, selected, fromIndex, toIndex, k + 1)

\* a move that adds the Markers to the destination and leaves them in the source
moveSelectedMarkersSharing(tls, selected, fromIndex, toIndex) ==
    IF fromIndex < 0 \/ toIndex < 0 \/ fromIndex = toIndex THEN tls
    ELSE IF fromIndex >= Len(tls) \/ toIndex >= Len(tls) THEN tls
    ELSE [tls EXCEPT ![toIndex + 1].markers =
             @ \o SelectSeq(selected, LAMBDA m : contains(TL(tls, fromIndex).markers, m))]

moveSelectedMarkersToTimeline(tls, selected, fromIndex, toIndex) ==
    IF fromIndex < 0 \/ toIndex < 0 \/ fromIndex = toIndex THEN tls
    ELSE IF fromIndex >= Len(tls) \/ toIndex >= Len(tls) THEN tls
    ELSE moveSelectedFrom(tls, selected, fromIndex, toIndex, 1)

\* mouseDrag lines 447-485, the cursor over another timeline: the selected Markers
\* go to that timeline, which becomes the selected one and the drag's timeline, and
\* the dragged Marker follows the cursor
MouseDragMarkerTo(target, t) ==
    /\ view.mouseIsDown
    /\ ~(view.draggingFadeMarker # NoMarker /\ view.draggingFadeTimelineIndex >= 0)
    /\ ~(view.draggingRepeatMarker /\ view.selectedRepeatMarkerTimelineIndex >= 0)
    /\ view.draggingAutomationLane = "None"
    /\ view.draggingMarker # NoMarker
    /\ view.dragTimelineIndex >= 0
    /\ ValidIndex(view.dragTimelineIndex)
    /\ ValidIndex(target)
    /\ target # view.dragTimelineIndex
    /\ markerHeap[view.draggingMarker].live
    /\ Did("markerMove")
    /\ timelines' = moveSelectedMarkersToTimeline(timelines, view.selectedMarkers,
                                                  view.dragTimelineIndex, target)
    /\ view' = [setSelectedTimeline(view, target) EXCEPT !.dragTimelineIndex = target]
    /\ selectedTimelineIndex' = selectTimeline(Len(timelines), target)
    /\ markerHeap' = [markerHeap EXCEPT ![view.draggingMarker].startTimeSeconds = t]
    /\ UNCHANGED << undoSnapshots, isRestoring, copiedMarkers, projectFile, playVars,
                    threadVars, opBase >>

(***************************************************************************)
(* MainComponent: copy and paste                                           *)
(***************************************************************************)
\* what a read through a Marker pointer yields: the Marker at that address, or
\* whatever the freed memory holds when the Marker was destroyed
readMarker(heap, marker, freed) == IF heap[marker].live THEN heap[marker] ELSE freed

\* copySelectedMarker: the CopiedMarkerData of one selected Marker
copiedMarkerData(marker, timelineIndex, anchor) ==
    [timelineIndex |-> timelineIndex,
     pythonFile |-> marker.pythonFile,
     renderedSampleRate |-> marker.renderedSampleRate,
     lastRenderedTempoBpm |-> marker.lastRenderedTempoBpm,
     lastRenderedDurationSeconds |-> marker.lastRenderedDurationSeconds,
     lastRenderedPythonPath |-> marker.lastRenderedPythonPath,
     offsetSeconds |-> marker.startTimeSeconds - anchor,
     waveform |-> marker.waveform,
     fadeInSeconds |-> marker.fadeInSeconds,
     fadeOutSeconds |-> marker.fadeOutSeconds,
     renderBars |-> marker.renderBars,
     renderedBuffer |-> IF marker.renderedBuffer.present
                        THEN makeCopyOf(marker.renderedBuffer)
                        ELSE NoBuffer]

\* MainComponent::copySelectedMarker (Cmd-C)
copySelectedMarker(freed) ==
    /\ view.selectedMarkers # << >>
    /\ view.lastSelectedMarkerTimelineIndex >= 0
    /\ Did("copy")
    /\ LET anchor == IF view.lastSelectedMarker # NoMarker
                     THEN readMarker(markerHeap, view.lastSelectedMarker, freed).startTimeSeconds
                     ELSE 0
       IN copiedMarkers' =
             [k \in 1..Len(view.selectedMarkers) |->
                 copiedMarkerData(readMarker(markerHeap, view.selectedMarkers[k], freed),
                                  view.lastSelectedMarkerTimelineIndex, anchor)]
    /\ UNCHANGED << timelines, markerHeap, undoSnapshots, isRestoring, selectedTimelineIndex,
                    view, projectFile, playVars, threadVars, opBase >>

\* pasteCopiedMarkerAtPlayhead lines 2608-2626: the Marker built from one
\* CopiedMarkerData; the stamp is taken from the timeline while renderBars is still 0
pastedMarker(copied, timeline, localTime) ==
    LET placed == [NewMarker EXCEPT
                      !.startTimeSeconds = jlimit(0, timeline.durationSeconds,
                                                  localTime + copied.offsetSeconds),
                      !.pythonFile = copied.pythonFile,
                      !.renderedSampleRate = copied.renderedSampleRate]
    IN [placed EXCEPT
           !.lastRenderedTempoBpm = timeline.tempoBpm,
           !.lastRenderedDurationSeconds = getRenderDurationSecondsForMarker(timeline, placed),
           !.lastRenderedPythonPath = placed.pythonFile,
           !.waveform = copied.waveform,
           !.fadeInSeconds = copied.fadeInSeconds,
           !.fadeOutSeconds = copied.fadeOutSeconds,
           !.renderBars = copied.renderBars,
           !.renderedBuffer = IF copied.renderedBuffer.present
                              THEN makeCopyOf(copied.renderedBuffer)
                              ELSE NoBuffer]

\* the timeline pasteCopiedMarkerAtPlayhead pastes into (lines 2597-2602), or -1
pasteTimelineIndex(copied, tls, selected) ==
    LET first == copied[1].timelineIndex
        index == IF first < 0 \/ first >= Len(tls) THEN selected ELSE first
    IN IF index < 0 \/ index >= Len(tls) THEN -1 ELSE index

\* the model after the copied Markers k..end were pasted: timelines, heap and queue
RECURSIVE pasteFrom(_, _, _, _, _, _, _)
pasteFrom(tls, heap, queue, copied, timelineIndex, localTime, k) ==
    IF k > Len(copied) THEN [timelines |-> tls, markerHeap |-> heap, jobQueue |-> queue]
    ELSE LET id == AllocId(heap)
             timeline == TL(tls, timelineIndex)
             marker == pastedMarker(copied[k], timeline, localTime)
             added == [tls EXCEPT ![timelineIndex + 1].markers = Append(@, id)]
             q == IF ~marker.renderedBuffer.present
                  THEN renderMarker(queue, id, deviceSampleRate,
                                    getRenderDurationSecondsForMarker(timeline, marker),
                                    timeline.tempoBpm)
                  ELSE queue
         IN pasteFrom(added, [heap EXCEPT ![id] = marker], q, copied, timelineIndex,
                      localTime, k + 1)

\* MainComponent::pasteCopiedMarkerAtPlayhead (Cmd-V)
pasteCopiedMarkerAtPlayhead ==
    /\ copiedMarkers # << >>
    /\ Did("paste")
    /\ undoSnapshots' = pushUndoState(undoSnapshots, timelines, markerHeap, isRestoring)
    /\ LET timelineIndex == pasteTimelineIndex(copiedMarkers, timelines, selectedTimelineIndex)
       IN IF timelineIndex < 0
          THEN UNCHANGED << timelines, markerHeap, jobQueue, selectedTimelineIndex >>
          ELSE LET localTime == getLoopedLocalTime(playheadSeconds, TL(timelines, timelineIndex))
                   pasted == pasteFrom(timelines, markerHeap, jobQueue, copiedMarkers,
                                       timelineIndex, localTime, 1)
               IN /\ Cardinality(FreeIds(markerHeap)) >= Len(copiedMarkers)
                  /\ timelines' = pasted.timelines
                  /\ markerHeap' = pasted.markerHeap
                  /\ jobQueue' = pasted.jobQueue
                  /\ Len(jobQueue') <= MaxQueue
                  /\ selectedTimelineIndex' = selectTimeline(Len(timelines), timelineIndex)
    /\ UNCHANGED << isRestoring, view, copiedMarkers, projectFile, playVars, workers, audio,
                    lastCallback, opBase >>

(***************************************************************************)
(* TimelineView: the automation lanes                                      *)
(***************************************************************************)
Lanes == {"Volume", "Pan"}

\* startAutomationDrag line 1464: the lane's vector of the timeline
lanePoints(timeline, lane) ==
    IF lane = "Volume" THEN timeline.volumeAutomation ELSE timeline.panAutomation

withLanePoints(timeline, lane, points) ==
    IF lane = "Volume" THEN [timeline EXCEPT !.volumeAutomation = points]
    ELSE [timeline EXCEPT !.panAutomation = points]

IsSortedByTime(points) ==
    \A i \in 1..(Len(points) - 1) : points[i].timeSeconds <= points[i + 1].timeSeconds

\* TimelineView::sortAutomation: std::sort by timeSeconds; it is not stable, so every
\* ascending arrangement of the points is a possible outcome
sortAutomation(points) ==
    { sorted \in { [i \in 1..Len(points) |-> points[perm[i]]] :
                       perm \in Permutations(1..Len(points)) } :
         IsSortedByTime(sorted) }

\* TimelineView::findAutomationPointId: the id of the first point under the cursor,
\* the 20 x 20 pixel hit box being the point itself; the cursor's time is a time of
\* the view window (xToTime), so the point hit is in view
findAutomationPointId(points, t, value) ==
    LET hits == { i \in 1..Len(points) :
                     points[i].timeSeconds = t /\ points[i].value = value }
    IN IF hits = {} THEN -1
       ELSE points[CHOOSE i \in hits : \A j \in hits : i <= j].id

\* TimelineView::findAutomationPointById: the index of the first point with the id,
\* 0 for nullptr
findAutomationPointById(points, id) ==
    LET found == { i \in 1..Len(points) : points[i].id = id }
    IN IF found = {} THEN 0 ELSE CHOOSE i \in found : \A j \in found : i <= j

\* mouseDown line 306 with the cursor inside the points rectangle of a lane:
\* handleAutomationMouseDown and startAutomationDrag; the point under the cursor is
\* picked up, or a new point is added to the lane
MouseDownAutomation(ti, lane, t, value) ==
    /\ ~view.mouseIsDown
    /\ ValidIndex(ti)
    /\ ~view.scissorsEnabled
    /\ LET v1 == mouseDownSelect(view, ti)
           timeline == timelines[ti + 1]
           points == lanePoints(timeline, lane)
           hitId == findAutomationPointId(points, t, value)
           p == [id |-> timeline.nextAutomationId, timeSeconds |-> t, value |-> value]
           picked == IF hitId >= 0 THEN hitId ELSE p.id
       IN /\ undoSnapshots' = beginEditOnceStack(v1, undoSnapshots, timelines,
                                                 markerHeap, isRestoring)
          /\ IF hitId >= 0
             THEN /\ Did(IF view.editInProgress THEN "mouseDown" ELSE "push")
                  /\ UNCHANGED timelines
             ELSE /\ Len(points) < MaxPoints
                  /\ Did("addAutomationPoint")
                  /\ \E sorted \in sortAutomation(Append(points, p)) :
                        timelines' = [timelines EXCEPT ![ti + 1] =
                                         withLanePoints([timeline EXCEPT
                                                            !.nextAutomationId = @ + 1],
                                                        lane, sorted)]
          /\ view' = [beginEditOnceView(v1) EXCEPT
                         !.draggingAutomationLane = lane,
                         !.draggingAutomationPointId = picked,
                         !.draggingAutomationTimelineIndex = ti,
                         !.selectedAutomationLane = lane,
                         !.selectedAutomationPointId = picked,
                         !.selectedAutomationTimelineIndex = ti,
                         !.mouseIsDown = TRUE]
    /\ selectedTimelineIndex' = selectTimeline(Len(timelines), ti)
    /\ opBase' = ModelValue(timelines, markerHeap)
    /\ UNCHANGED << markerHeap, isRestoring, copiedMarkers, projectFile, playVars,
                    threadVars >>

\* mouseDrag lines 441-445 and handleAutomationMouseDrag: the dragged point follows
\* the cursor and the lane is sorted again
MouseDragAutomation(t, value) ==
    /\ view.mouseIsDown
    /\ ~(view.draggingFadeMarker # NoMarker /\ view.draggingFadeTimelineIndex >= 0)
    /\ ~(view.draggingRepeatMarker /\ view.selectedRepeatMarkerTimelineIndex >= 0)
    /\ view.draggingAutomationLane # "None"
    /\ view.draggingAutomationTimelineIndex >= 0
    /\ ValidIndex(view.draggingAutomationTimelineIndex)
    /\ LET ti == view.draggingAutomationTimelineIndex
           timeline == TL(timelines, ti)
           points == lanePoints(timeline, view.draggingAutomationLane)
           at == findAutomationPointById(points, view.draggingAutomationPointId)
       IN /\ at # 0
          /\ Did("automationDrag")
          /\ LET moved == [points EXCEPT
                              ![at].timeSeconds = jlimit(0, timeline.durationSeconds, t),
                              ![at].value = value]
             IN \E sorted \in sortAutomation(moved) :
                   timelines' = [timelines EXCEPT ![ti + 1] =
                                    withLanePoints(timeline, view.draggingAutomationLane,
                                                   sorted)]
    /\ UNCHANGED << markerHeap, undoSnapshots, isRestoring, selectedTimelineIndex, view,
                    copiedMarkers, projectFile, playVars, threadVars, opBase >>

(***************************************************************************)
(* MainComponent: Save                                                     *)
(***************************************************************************)
\* no project file has been written
NoProjectFile == [kind |-> "none", hasTimelines |-> FALSE, timelines |-> << >>]

\* saveProject's file chooser callback with a file chosen: writeProjectToFile
saveProject ==
    /\ ~view.mouseIsDown
    /\ Did("save")
    /\ projectFile' = serializeModel(timelines, markerHeap)
    /\ UNCHANGED << timelines, markerHeap, undoSnapshots, isRestoring,
                    selectedTimelineIndex, view, copiedMarkers, playVars, threadVars,
                    opBase >>

\* loadProject's callback with the file Save wrote
loadSavedProject ==
    /\ ~view.mouseIsDown
    /\ projectFile.kind # "none"
    /\ loadProject(projectFile)

(***************************************************************************)
(* Initial states                                                          *)
(***************************************************************************)
\* TimelineModel::TimelineModel: the three timelines of a new session
ConstructedTimelines ==
    << addTimeline(120, 8000),
       [addTimeline(90, 10000) EXCEPT !.beatsPerBar = 3, !.beatUnit = 4],
       [addTimeline(140, 6000) EXCEPT !.beatsPerBar = 7, !.beatUnit = 8] >>

EmptyHeap == [m \in MarkerIds |-> FreedMarker]

\* a project file written by Save: one timeline of 4 s with one marker whose fade-in
\* is 1 s
ProjectDoc ==
    [kind |-> "object",
     hasTimelines |-> TRUE,
     timelines |-> <<
        [serializeTimeline(addTimeline(120, 4000), EmptyHeap) EXCEPT
            !.markers = << [isObject |-> TRUE, startTimeSeconds |-> 0,
                            pythonPath |-> "a.py", fadeInSeconds |-> 1000,
                            fadeOutSeconds |-> 0, renderBars |-> 0] >>] >>]

\* project files not written by Save: the loop region out of order, three loop
\* points, a root that is no object, a root without "timelines", unparseable text
UnsortedDoc ==
    [ProjectDoc EXCEPT !.timelines[1].repeatMarkers = << 3000, 1000 >>]

ThreeLoopDoc ==
    [ProjectDoc EXCEPT !.timelines[1].repeatMarkers = << 1000, 2000, 3000 >>]

ArrayDoc == [ProjectDoc EXCEPT !.kind = "array"]

NoTimelinesDoc == [ProjectDoc EXCEPT !.hasTimelines = FALSE]

VoidDoc == [ProjectDoc EXCEPT !.kind = "void"]

\* a project file not written by Save: the volume lane of the first timeline out of
\* time order
UnsortedLaneDoc ==
    [ProjectDoc EXCEPT
        !.timelines[1].volumeAutomation =
            << [id |-> 1, timeSeconds |-> 2000, value |-> 100],
               [id |-> 2, timeSeconds |-> 0, value |-> 0] >>]

\* a corrupted project file: the first entry of "timelines" is a number, the second
\* is the timeline of ProjectDoc
NonObjectEntryDoc ==
    [ProjectDoc EXCEPT !.timelines = << [isObject |-> FALSE] >> \o ProjectDoc.timelines]

CorruptDocuments == { NonObjectEntryDoc }

\* a project file not written by Save: tempo 0, 0 beats in a bar of 3rd notes,
\* volume 1.5, pan -1.5, and a marker that starts at -1 s
OutOfRangeDoc ==
    [ProjectDoc EXCEPT !.timelines[1].tempoBpm = 0,
                       !.timelines[1].beatsPerBar = 0,
                       !.timelines[1].beatUnit = 3,
                       !.timelines[1].volume = 150,
                       !.timelines[1].pan = -150,
                       !.timelines[1].markers[1].startTimeSeconds = -1000]

\* a project file not written by Save: 0 beats in a bar, and a marker of 2 bars
ZeroBeatsDoc ==
    [ProjectDoc EXCEPT !.timelines[1].beatsPerBar = 0,
                       !.timelines[1].markers[1].renderBars = 2]

RangeDocuments == { OutOfRangeDoc, ZeroBeatsDoc }

Documents == { ProjectDoc, UnsortedDoc, ThreeLoopDoc, ArrayDoc, NoTimelinesDoc, VoidDoc }

LaneDocuments == { UnsortedLaneDoc }


\* a Marker after its render job ran to completion on the timeline
renderedMarker(timeline, marker) ==
    LET job == RenderJob(NoMarker, deviceSampleRate,
                         getRenderDurationSecondsForMarker(timeline, marker),
                         timeline.tempoBpm)
        stored == [beginRender(marker) EXCEPT
                      !.renderedSampleRate = job.sampleRate,
                      !.renderedBuffer = MakeBuffer(<< RenderedSamples(job.durationSeconds,
                                                                       job.sampleRate) >>),
                      !.writes = 2]
    IN finishRender(stored, job)

LoadedTimelines == deserializeTimelines(ProjectDoc)

LoadedHeap ==
    [m \in MarkerIds |->
        IF deserializeHeap(ProjectDoc)[m].live
        THEN renderedMarker(LoadedTimelines[1], deserializeHeap(ProjectDoc)[m])
        ELSE FreedMarker]

\* a new session: the constructed model, nothing selected, every thread idle
InitConstructed(budget) ==
    /\ timelines = ConstructedTimelines
    /\ markerHeap = EmptyHeap
    /\ undoSnapshots = << >>
    /\ isRestoring = FALSE
    /\ selectedTimelineIndex = 0
    /\ view = NewView
    /\ copiedMarkers = << >>
    /\ projectFile = NoProjectFile
    /\ playing = FALSE
    /\ playheadSeconds = 0
    /\ jobQueue = << >>
    /\ workers = [w \in Workers |-> Idle]
    /\ audio = AudioIdle
    /\ lastCallback = NoCallback
    /\ lastOp = "none"
    /\ opBase = NoBase
    /\ opsLeft = budget

\* a new session in which ProjectDoc has just been loaded: its render job is queued
InitPending(budget) ==
    /\ timelines = LoadedTimelines
    /\ markerHeap = deserializeHeap(ProjectDoc)
    /\ undoSnapshots = << snapshotModel(ConstructedTimelines, EmptyHeap) >>
    /\ isRestoring = FALSE
    /\ selectedTimelineIndex = 0
    /\ view = NewView
    /\ copiedMarkers = << >>
    /\ projectFile = NoProjectFile
    /\ playing = FALSE
    /\ playheadSeconds = 0
    /\ jobQueue = deserializeJobs(<< >>, LoadedTimelines, deserializeHeap(ProjectDoc), 1)
    /\ workers = [w \in Workers |-> Idle]
    /\ audio = AudioIdle
    /\ lastCallback = NoCallback
    /\ lastOp = "none"
    /\ opBase = NoBase
    /\ opsLeft = budget

\* a new session in which ProjectDoc was loaded and its render job has completed:
\* loadProject pushed the constructed model on the undo stack; Play may have been
\* pressed
InitLoaded(budget, isPlaying) ==
    /\ timelines = LoadedTimelines
    /\ markerHeap = LoadedHeap
    /\ undoSnapshots = << snapshotModel(ConstructedTimelines, EmptyHeap) >>
    /\ isRestoring = FALSE
    /\ selectedTimelineIndex = 0
    /\ view = NewView
    /\ copiedMarkers = << >>
    /\ projectFile = NoProjectFile
    /\ playing = isPlaying
    /\ playheadSeconds = 0
    /\ jobQueue = << >>
    /\ workers = [w \in Workers |-> Idle]
    /\ audio = AudioIdle
    /\ lastCallback = [marker |-> 1, success |-> TRUE, reason |-> "Render complete",
                       timedOut |-> FALSE]
    /\ lastOp = "none"
    /\ opBase = NoBase
    /\ opsLeft = budget

(***************************************************************************)
(* Specifications                                                          *)
(***************************************************************************)
TimelineIndexes == 0..(MaxTimelines - 1)
MarkerSlots == 1..MaxMarkers
ClickTimes == {0, 2000}

\* the handlers of the control context
Init == InitLoaded(MaxOps, FALSE)

Next ==
    \/ \E ti \in TimelineIndexes, t \in ClickTimes : MouseDownRight(ti, t)
    \/ \E ti \in TimelineIndexes, idx \in 0..1 : MouseDownRepeatMarker(ti, idx)
    \/ \E ti \in TimelineIndexes, k \in MarkerSlots, isFadeIn \in BOOLEAN :
          MouseDownFadeTab(ti, k, isFadeIn)
    \/ \E ti \in TimelineIndexes, k \in MarkerSlots, shift \in BOOLEAN :
          MouseDownMarker(ti, k, shift)
    \/ \E ti \in TimelineIndexes, t \in ClickTimes : MouseDownScissors(ti, t)
    \/ \E ti \in TimelineIndexes, t \in ClickTimes : MouseDownEmpty(ti, t)
    \/ \E file \in ExistingFiles : FileChosen(file)
    \/ \E t \in ClickTimes : MouseDragFade(t)
    \/ \E t \in ClickTimes : MouseDragRepeatMarker(t)
    \/ \E t \in ClickTimes : MouseDragMarker(t)
    \/ MouseUp
    \/ KeyDeleteRepeatMarker
    \/ KeyDeleteTimeline
    \/ KeyDeleteMarkers
    \/ undoSnapshot
    \/ KeyScissors
    \/ AddTrack
    \/ applyTempoFromInspector(60)
    \/ applyDurationFromInspector(2000)
    \/ applyVolumeFromInspector(50)
    \/ applyPanFromInspector(-50)
    \/ applyTimeSignatureFromInspector(3, 4)
    \/ applyMarkerRenderBarsFromInspector(1)
    \/ \E doc \in Documents : loadProject(doc)
    \/ \E doc \in Documents : loadProjectVoid(doc)

Spec == Init /\ [][Next]_vars

\* the undo history alone, from a new session, deep enough to fill the stack
InitHistory == InitConstructed(HistoryOps)

NextHistory ==
    \/ KeyDeleteTimeline
    \/ AddTrack
    \/ undoSnapshot

SpecHistory == InitHistory /\ [][NextHistory]_vars

\* the render pool and the audio thread beside the handlers that start renders, cut
\* and play
InitRender == \E isPlaying \in BOOLEAN : InitLoaded(RenderOps, isPlaying)

NextRender ==
    \/ applyDurationFromInspector(2000)
    \/ KeyScissors
    \/ \E t \in ClickTimes : MouseDownScissors(0, t)
    \/ Play
    \/ Stop
    \/ \E w \in Workers : JobStart(w)
    \/ \E w \in Workers, present \in BOOLEAN, started \in BOOLEAN : JobBegin(w, present, started)
    \/ \E w \in Workers, timedOut \in BOOLEAN, file \in {"missing", "unreadable", "partial", "complete"} :
          JobWait(w, timedOut, file)
    \/ \E w \in Workers : JobStoreRate(w)
    \/ \E w \in Workers : JobStoreBuffer(w)
    \/ \E w \in Workers : JobFinish(w)
    \/ AudioBegin
    \/ AudioSeek
    \/ AudioCheck
    \/ AudioRead
    \/ AudioEnd

SpecRender == InitRender /\ [][NextRender]_vars

\* the automation lanes of a new session: points added, dragged and deleted, undo,
\* Save and Load
AutomationTimelines == 0..1
ClickValues == {0, 100}

InitAutomation == InitConstructed(AutomationOps)

NextAutomation ==
    \/ \E ti \in AutomationTimelines, lane \in Lanes, t \in ClickTimes, value \in ClickValues :
          MouseDownAutomation(ti, lane, t, value)
    \/ \E t \in ClickTimes, value \in ClickValues : MouseDragAutomation(t, value)
    \/ MouseUp
    \/ KeyDeleteAutomationPoint
    \/ undoSnapshot
    \/ saveProject
    \/ loadSavedProject

SpecAutomation == InitAutomation /\ [][NextAutomation]_vars

\* project files: Load of files written by Save and of files written by hand, Save,
\* undo and Add Track, from a new session
InitProject == InitConstructed(ProjectOps)

NextProject ==
    \/ \E doc \in Documents \cup LaneDocuments \cup CorruptDocuments \cup RangeDocuments :
          loadProject(doc)
    \/ \E doc \in Documents : loadProjectVoid(doc)
    \/ saveProject
    \/ loadSavedProject
    \/ undoSnapshot
    \/ AddTrack

SpecProject == InitProject /\ [][NextProject]_vars

\* the scissors: a project whose marker is rendered, or still waits for its render;
\* the marker is selected with shift-click, the scissors tool is switched, cuts are
\* made at times before, inside, at the end of and beyond the rendered audio
CutTimes == {0, 500, 2400, 3600, 5000}

InitCut == InitLoaded(CutOps, FALSE) \/ InitPending(CutOps)

NextCut ==
    \/ MouseDownMarker(0, 1, TRUE)
    \/ KeyScissors
    \/ \E t \in CutTimes : MouseDownScissors(0, t)
    \/ MouseUp
    \/ undoSnapshot

SpecCut == InitCut /\ [][NextCut]_vars

\* the re-render sweep: tempo, duration and time signature are edited while the
\* pool renders; a render succeeds or finds no WAV file
InitSweep == InitLoaded(SweepOps, FALSE)

NextSweep ==
    \/ applyTempoFromInspector(60)
    \/ applyDurationFromInspector(2000)
    \/ applyTimeSignatureFromInspector(3, 4)
    \/ \E w \in Workers : JobStart(w)
    \/ \E w \in Workers : JobBegin(w, TRUE, TRUE)
    \/ \E w \in Workers, file \in {"missing", "complete"} : JobWait(w, FALSE, file)
    \/ \E w \in Workers : JobStoreRate(w)
    \/ \E w \in Workers : JobStoreBuffer(w)
    \/ \E w \in Workers : JobFinish(w)

SpecSweep == InitSweep /\ [][NextSweep]_vars

\* markers between timelines and through the clipboard: a loaded project whose
\* marker is rendered; a track is added, the marker is selected, dragged to another
\* timeline, copied, pasted and deleted, the tempo is edited, and undo
FreedMemory == { FreedMarker, LoadedHeap[1] }

InitClip == InitLoaded(ClipOps, FALSE)

NextClip ==
    \/ AddTrack
    \/ \E ti \in 0..1, shift \in BOOLEAN : MouseDownMarker(ti, 1, shift)
    \/ \E target \in 0..1 : MouseDragMarkerTo(target, 2000)
    \/ MouseDragMarker(2000)
    \/ MouseUp
    \/ \E freed \in FreedMemory : copySelectedMarker(freed)
    \/ pasteCopiedMarkerAtPlayhead
    \/ KeyDeleteMarkers
    \/ applyTempoFromInspector(60)
    \/ undoSnapshot

SpecClip == InitClip /\ [][NextClip]_vars

\* the audio callback beside the transport buttons and the scissors: blocks while
\* playing and while not playing, Stop and cuts in the middle of a block
InitAudio == \E isPlaying \in BOOLEAN : InitLoaded(AudioOps, isPlaying)

NextAudio ==
    \/ Play
    \/ Stop
    \/ KeyScissors
    \/ \E t \in ClickTimes : MouseDownScissors(0, t)
    \/ MouseUp
    \/ AudioBegin
    \/ AudioSilent
    \/ AudioSeek
    \/ AudioCheck
    \/ AudioRead
    \/ AudioEnd

SpecAudio == InitAudio /\ [][NextAudio]_vars

\* Markers destroyed while their render jobs are queued or running: a project has
\* just been loaded; undo, Delete of the timeline and another Load destroy the
\* Marker, Add Track takes a snapshot of it
InitDestroy == InitPending(DestroyOps)

NextDestroy ==
    \/ undoSnapshot
    \/ AddTrack
    \/ KeyDeleteTimeline
    \/ loadProject(ProjectDoc)
    \/ \E w \in Workers : JobStart(w)
    \/ \E w \in Workers, present \in BOOLEAN, started \in BOOLEAN : JobBegin(w, present, started)
    \/ \E w \in Workers, file \in {"missing", "complete"} : JobWait(w, FALSE, file)
    \/ \E w \in Workers : JobStoreRate(w)
    \/ \E w \in Workers : JobStoreBuffer(w)
    \/ \E w \in Workers : JobFinish(w)

SpecDestroy == InitDestroy /\ [][NextDestroy]_vars

\* render requests that all succeed: the tempo and the duration of a loaded project
\* are edited, each edit sweeps, and every job runs to completion
InitRequests == InitLoaded(RequestOps, FALSE)

NextRequests ==
    \/ applyTempoFromInspector(60)
    \/ applyDurationFromInspector(2000)
    \/ \E w \in Workers : JobStart(w)
    \/ \E w \in Workers : JobBegin(w, TRUE, TRUE)
    \/ \E w \in Workers : JobWait(w, FALSE, "complete")
    \/ \E w \in Workers : JobStoreRate(w)
    \/ \E w \in Workers : JobStoreBuffer(w)
    \/ \E w \in Workers : JobFinish(w)

SpecRequests == InitRequests /\ [][NextRequests]_vars

\* the mix: the second timeline of a loaded project, 10 s long, with no, one or two
\* repeat markers, with and without automation points, and track defaults inside
\* and outside their ranges as a project file can hold them; the playhead stands
\* at one of the times of MixTimes; the duration may be edited to 2 s; one volume
\* lane has two points at the same time, 3 s
Point(id, timeSeconds, value) == [id |-> id, timeSeconds |-> timeSeconds, value |-> value]

MixRepeatMarkers == { << >>, << 3000 >>, << 2000, 6000 >> }
MixVolumeLanes ==
    { << >>, << Point(1, 0, 0), Point(2, 4000, 100) >>, << Point(1, 2000, 50) >>,
      << Point(1, 1000, 20), Point(2, 3000, 40), Point(3, 3000, 90), Point(4, 7000, 10) >> }
MixPanLanes == { << >>, << Point(1, 1000, 100), Point(2, 3000, -100) >> }
MixVolumes == { 80, 150 }
MixPans == { -150, -100, 0, 100 }
MixTimes == { 1000, 2000, 2500, 3000, 4500, 7000, 9000, 10000, 12000 }

MixTimelines ==
    { [ConstructedTimelines[2] EXCEPT
          !.repeatMarkers = rm, !.volumeAutomation = vl, !.panAutomation = pl,
          !.volume = v, !.pan = p] :
         rm \in MixRepeatMarkers, vl \in MixVolumeLanes, pl \in MixPanLanes,
         v \in MixVolumes, p \in MixPans }

InitMix ==
    /\ timelines \in { [ConstructedTimelines EXCEPT ![2] = tl] : tl \in MixTimelines }
    /\ markerHeap = EmptyHeap
    /\ undoSnapshots = << snapshotModel(ConstructedTimelines, EmptyHeap) >>
    /\ isRestoring = FALSE
    /\ selectedTimelineIndex = 1
    /\ view = [NewView EXCEPT !.selectedTimelineIndex = 1]
    /\ copiedMarkers = << >>
    /\ projectFile = NoProjectFile
    /\ playing = TRUE
    /\ playheadSeconds \in MixTimes
    /\ jobQueue = << >>
    /\ workers = [w \in Workers |-> Idle]
    /\ audio = AudioIdle
    /\ lastCallback = NoCallback
    /\ lastOp = "none"
    /\ opBase = NoBase
    /\ opsLeft = MixOps

NextMix ==
    \/ AudioMix(1)
    \/ applyDurationFromInspector(2000)

SpecMix == InitMix /\ [][NextMix]_vars

(***************************************************************************)
(* Properties                                                              *)
(***************************************************************************)
\* the part of a Marker a render job writes on success
RenderState(marker) ==
    << marker.renderedBuffer, marker.renderedSampleRate, marker.waveform,
       marker.lastRenderedTempoBpm, marker.lastRenderedDurationSeconds,
       marker.lastRenderedPythonPath >>

CommitPcs == {"storeRate", "storeBuffer", "finish"}

\* C1: whenever the audio callback has read a sample of a Marker, the buffer it read
\* the sample from is the buffer it checked the sample index against: no store into
\* that Marker's renderedBuffer or renderedSampleRate happened between the bounds
\* check and the read.
C1_AudioReadsOneBuffer == audio.sampled => audio.sameBuffer

\* C2: no two pool threads run jobs of the same Marker at the same time.
C2_OneJobPerMarkerInFlight ==
    \A w1 \in Workers, w2 \in Workers :
        (w1 # w2 /\ workers[w1].pc # "idle" /\ workers[w2].pc # "idle")
            => workers[w1].marker # workers[w2].marker

\* C3: every step of a render job up to and including its failure return (source
\* missing, process not started, no output file, output unreadable) leaves the
\* Marker's renderedBuffer, renderedSampleRate, waveform and three stamps as they
\* were, and the failure return invokes the callback with success = false.
C3_FailedJobLeavesMarker ==
    [][\A w \in Workers :
          (workers[w].pc \in {"begin", "waiting"} /\ workers'[w] # workers[w])
             => /\ RenderState(markerHeap'[workers[w].marker])
                      = RenderState(markerHeap[workers[w].marker])
                /\ workers'[w].pc = "idle"
                      => /\ lastCallback'.marker = workers[w].marker
                         /\ ~lastCallback'.success]_vars

\* a job of a Marker that holds a buffer has failed on an unreadable output file
C3_Witness ==
    /\ lastCallback.marker # NoMarker
    /\ ~lastCallback.success
    /\ lastCallback.reason = "Failed to read rendered WAV"
    /\ markerHeap[lastCallback.marker].renderedBuffer.present

\* C4: a job whose wait timed out never goes on to store a rate or a buffer and
\* never reports success.
C4_TimeoutIsFailure ==
    /\ \A w \in Workers : workers[w].timedOut => workers[w].pc \notin CommitPcs
    /\ lastCallback.timedOut => ~lastCallback.success

\* C5: when a handler whose only effect was a pushUndoState is followed at once by
\* undoSnapshot, the model after the undo equals the model before it: the same
\* timelines in order, every Timeline field, automation point and repeat marker,
\* and every Marker's data fields with the contents of its buffer.
C5_PushThenUndoRestores ==
    [][(lastOp = "push" /\ HandlerStep /\ lastOp' \in UndoOps)
          => ModelValue(timelines', markerHeap') = ModelValue(timelines, markerHeap)]_vars

\* a push was undone at once, on a model that holds a rendered Marker with a fade
C5_Witness ==
    /\ lastOp = "undoOfPush"
    /\ \E id \in OwnedIds(timelines) :
          /\ markerHeap[id].renderedBuffer.present
          /\ getNumSamples(markerHeap[id].renderedBuffer) > 0
          /\ markerHeap[id].fadeInSeconds > 0

\* C6: the undo stack never holds more than 10 snapshots.
C6_UndoStackCapped == Len(undoSnapshots) <= MaxUndo

\* the stack is full and the first snapshot ever pushed (the constructed model, three
\* timelines) has been discarded
C6_Witness ==
    /\ Len(undoSnapshots) = MaxUndo
    /\ Len(undoSnapshots[1].timelines) # 3

\* C7: every handler step that changes the model (undo aside) leaves on top of the
\* undo stack a snapshot that restores the model as it was before the operation
\* (for the steps of a drag: as it was when the gesture began).
C7_MutationPrecededByPush ==
    [][(/\ HandlerStep
        /\ lastOp' \notin UndoOps
        /\ ModelValue(timelines', markerHeap') # ModelValue(timelines, markerHeap))
          => /\ undoSnapshots' # << >>
             /\ LET top == undoSnapshots'[Len(undoSnapshots')]
                IN ModelValue(restoreModelTimelines(top), restoreModelHeap(top))
                     = IF lastOp' \in {"fadeDrag", "repeatDrag", "markerDrag"}
                       THEN opBase
                       ELSE ModelValue(timelines, markerHeap)]_vars

\* C8: undoSnapshot on an empty stack changes neither the model nor the selected
\* timeline nor the stack.
C8_UndoOnEmptyStackIsNoOp ==
    [][(HandlerStep /\ lastOp' \in UndoOps /\ undoSnapshots = << >>)
          => UNCHANGED << timelines, markerHeap, selectedTimelineIndex, undoSnapshots,
                          isRestoring >>]_vars

\* undo ran on an empty stack with a model that is not empty
C8_Witness ==
    /\ lastOp = "undoEmpty"
    /\ undoSnapshots = << >>
    /\ timelines # << >>

\* C9: every Marker of the model that has a rendered buffer has fades that are not
\* negative and together no longer than its rendered duration.
C9_FadesWithinRenderedDuration ==
    \A id \in OwnedIds(timelines) :
        LET marker == markerHeap[id]
        IN (marker.renderedBuffer.present /\ marker.renderedSampleRate > 0)
              => /\ marker.fadeInSeconds >= 0
                 /\ marker.fadeOutSeconds >= 0
                 /\ marker.fadeInSeconds + marker.fadeOutSeconds <= renderedDuration(marker)

\* C10: every Timeline's repeatMarkers holds at most two values, in ascending order.
C10_RepeatMarkersAtMostTwoSorted ==
    \A i \in 1..Len(timelines) :
        /\ Len(timelines[i].repeatMarkers) <= 2
        /\ IsSortedSeq(timelines[i].repeatMarkers)


\* C11: in every reachable state both automation lanes of every Timeline are sorted
\* by timeSeconds ascending.
C11_LanesSortedByTime ==
    \A i \in 1..Len(timelines) :
        /\ IsSortedByTime(timelines[i].volumeAutomation)
        /\ IsSortedByTime(timelines[i].panAutomation)

\* the ids of the points of a lane are pairwise different
UniqueIds(points) ==
    \A i, j \in 1..Len(points) : i # j => points[i].id # points[j].id

\* C12: in every reachable state no two points of a lane share an id, and
\* nextAutomationId of a Timeline is greater than every id in its two lanes.
C12_AutomationIdsUnique ==
    \A i \in 1..Len(timelines) : \A lane \in Lanes :
        LET points == lanePoints(timelines[i], lane)
        IN /\ UniqueIds(points)
           /\ \A k \in 1..Len(points) : points[k].id < timelines[i].nextAutomationId


\* the Markers a cut at timeSeconds on the timeline works on that have a rendered
\* buffer and a positive sample rate
RenderedTargets(ti, timeSeconds) ==
    { id \in cutTargets(TL(timelines, ti), markerHeap, view.selectedMarkers, timeSeconds) :
         markerHeap[id].renderedBuffer.present /\ markerHeap[id].renderedSampleRate > 0 }

\* the number of samples the claim says a cut at timeSeconds leaves of the Marker
CutLength(marker, timeSeconds) ==
    IF timeSeconds <= marker.startTimeSeconds THEN 0
    ELSE jmin(getNumSamples(marker.renderedBuffer),
              RoundDiv((timeSeconds - marker.startTimeSeconds) * marker.renderedSampleRate,
                       1000))

\* C13: a cut at timeSeconds leaves of every target Marker with a rendered buffer of
\* N samples exactly the first L samples of every channel, L = 0 when timeSeconds <=
\* startTimeSeconds and L = min(N, round((timeSeconds - startTimeSeconds) *
\* renderedSampleRate)) otherwise; the Marker stays in its Timeline and its buffer is
\* not longer than before.
C13_CutKeepsFirstSamples ==
    [][\A t \in CutTimes :
          MouseDownScissors(0, t) =>
             /\ \A i \in 1..Len(timelines) : timelines'[i].markers = timelines[i].markers
             /\ \A id \in RenderedTargets(0, t) :
                   LET old == markerHeap[id].renderedBuffer
                       new == markerHeap'[id].renderedBuffer
                       L == CutLength(markerHeap[id], t)
                   IN /\ markerHeap'[id].live
                      /\ new.present
                      /\ getNumChannels(new) = getNumChannels(old)
                      /\ \A c \in 1..getNumChannels(old) :
                            new.data[c] = SubSeq(old.data[c], 1, L)
                      /\ getNumSamples(new) <= getNumSamples(old)]_vars

\* a cut at 0.5 s, half a sample into the audio, left the first sample of four
C13_Witness ==
    /\ lastOp = "cut"
    /\ contains(timelines[1].markers, 1)
    /\ markerHeap[1].renderedBuffer.data = << << 80 >> >>

\* the cut is one the claim calls a no-op on the Marker: no rendered buffer, no
\* positive sample rate, or the cut point's sample index at or beyond the end
CutIsNoOp(marker, timeSeconds) ==
    \/ ~marker.renderedBuffer.present
    \/ marker.renderedSampleRate <= 0
    \/ RoundDiv((timeSeconds - marker.startTimeSeconds) * marker.renderedSampleRate, 1000)
          >= getNumSamples(marker.renderedBuffer)

\* every field of a Marker of the program
MarkerFields(marker) == [f \in DOMAIN marker \ {"writes"} |-> marker[f]]

\* C14: a cut whose cut point lies at or beyond the end of a target Marker's buffer,
\* or whose target has no rendered buffer or no positive sample rate, leaves every
\* field of that Marker as it was.
C14_CutBeyondEndIsNoOp ==
    [][\A t \in CutTimes :
          MouseDownScissors(0, t) =>
             \A id \in cutTargets(TL(timelines, 0), markerHeap, view.selectedMarkers, t) :
                CutIsNoOp(markerHeap[id], t) =>
                   MarkerFields(markerHeap'[id]) = MarkerFields(markerHeap[id])]_vars

\* the scissors were clicked with the rendered, selected Marker as the target, and the
\* Marker came out as it went in
C14_Witness ==
    /\ lastOp = "push"
    /\ view.scissorsEnabled
    /\ view.mouseIsDown
    /\ view.selectedMarkers = << 1 >>
    /\ contains(timelines[1].markers, 1)
    /\ getNumSamples(markerHeap[1].renderedBuffer) = 4
    /\ markerHeap[1].fadeInSeconds = 1000

\* C15: after every cut that shortens a Marker's buffer, the truncation to zero
\* samples included, fadeInSeconds and fadeOutSeconds of that Marker are each at most
\* the new rendered duration.
C15_CutClampsFades ==
    [][\A t \in CutTimes :
          MouseDownScissors(0, t) =>
             \A id \in RenderedTargets(0, t) :
                getNumSamples(markerHeap'[id].renderedBuffer)
                      < getNumSamples(markerHeap[id].renderedBuffer) =>
                   /\ markerHeap'[id].fadeInSeconds <= renderedDuration(markerHeap'[id])
                   /\ markerHeap'[id].fadeOutSeconds <= renderedDuration(markerHeap'[id])]_vars


\* the handlers that run the re-render sweep
SweepOpNames == {"applyTempo", "applyDuration", "applyTimeSignature", "applyRenderBars"}

\* source path, tempo or desired duration differ from the stamp of the last
\* successful render
StampDiffers(timeline, marker) ==
    << marker.lastRenderedPythonPath, marker.lastRenderedTempoBpm,
       marker.lastRenderedDurationSeconds >>
       # << marker.pythonFile, timeline.tempoBpm,
            getRenderDurationSecondsForMarker(timeline, marker) >>

\* the jobs a handler added to the pool
AddedJobs == SubSeq(jobQueue', Len(jobQueue) + 1, Len(jobQueue'))

JobsFor(jobs, id) == Cardinality({ j \in 1..Len(jobs) : jobs[j].marker = id })

\* C16: a re-render sweep submits one render job for a Marker of the swept Timeline if
\* its source path, the tempo or its desired duration differs from the stamp of its
\* last successful render, and none otherwise; the jobs already submitted stay.
C16_SweepSubmitsIffStampDiffers ==
    [][(HandlerStep /\ lastOp' \in SweepOpNames) =>
          /\ Len(jobQueue') >= Len(jobQueue)
          /\ SubSeq(jobQueue', 1, Len(jobQueue)) = jobQueue
          /\ \A id \in MarkerIds :
                JobsFor(AddedJobs, id) =
                   IF /\ contains(TL(timelines', selectedTimelineIndex).markers, id)
                      /\ StampDiffers(TL(timelines', selectedTimelineIndex), markerHeap'[id])
                   THEN 1 ELSE 0]_vars

\* the first edit of the session, a new time signature, swept the rendered Marker of
\* the loaded project, whose tempo and duration are those of its render: no job
C16_Witness ==
    /\ lastOp = "applyTimeSignature"
    /\ opsLeft = SweepOps - 1
    /\ TL(timelines, selectedTimelineIndex).markers = << 1 >>
    /\ hasRenderedAudio(markerHeap[1])
    /\ jobQueue = << >>
    /\ \A w \in Workers : workers[w].pc = "idle"

\* C17: a handler that changes the tempo or the duration of a Timeline submits, for
\* every Marker of that Timeline whose stamp differs from the new parameters, a render
\* job with the new tempo and the desired duration.
C17_TempoOrDurationChangeSweeps ==
    [][HandlerStep =>
          \A i \in 1..Len(timelines') :
             (/\ Len(timelines') = Len(timelines)
              /\ \/ timelines'[i].tempoBpm # timelines[i].tempoBpm
                 \/ timelines'[i].durationSeconds # timelines[i].durationSeconds) =>
                \A k \in 1..Len(timelines'[i].markers) :
                   LET id == timelines'[i].markers[k]
                       desired == getRenderDurationSecondsForMarker(timelines'[i],
                                                                    markerHeap'[id])
                   IN StampDiffers(timelines'[i], markerHeap'[id]) =>
                         \E j \in 1..Len(AddedJobs) :
                            /\ AddedJobs[j].marker = id
                            /\ AddedJobs[j].tempoBpm = timelines'[i].tempoBpm
                            /\ AddedJobs[j].durationSeconds = desired]_vars


\* the loop time as the claim words it
ClaimedLoopTime(t, timeline) ==
    LET rm == timeline.repeatMarkers
    IN IF timeline.durationSeconds <= 0 THEN 0
       ELSE IF Len(rm) = 0 THEN t % timeline.durationSeconds
       ELSE IF Len(rm) = 1 THEN (IF t < rm[1] THEN t ELSE t % rm[1])
       ELSE IF t < rm[1] THEN t ELSE rm[1] + ((t - rm[1]) % (rm[2] - rm[1]))

\* the markers are those the claim speaks of: none, one m > 0, or two a < b
ClaimedMarkers(timeline) ==
    LET rm == timeline.repeatMarkers
    IN \/ Len(rm) = 0
       \/ Len(rm) = 1 /\ rm[1] > 0
       \/ Len(rm) = 2 /\ rm[1] < rm[2]

AmendedLoopTime(t, timeline) ==
    LET rm == timeline.repeatMarkers
        clamped == jmax(0, jmin(timeline.durationSeconds, t))
    IN IF timeline.durationSeconds <= 0 THEN 0
       ELSE IF Len(rm) = 0 THEN t % timeline.durationSeconds
       ELSE IF Len(rm) = 1 THEN (IF t < rm[1] THEN clamped ELSE t % rm[1])
       ELSE IF t < rm[1] THEN clamped ELSE rm[1] + ((t - rm[1]) % (rm[2] - rm[1]))

\* the examples of the claim: one marker at 3 s and two markers at 2 s and 6 s on a
\* timeline of 10 s
LoopExamples ==
    { << << 3000 >>, 2000, 2000 >>, << << 3000 >>, 3000, 0 >>,
      << << 3000 >>, 4500, 1500 >>, << << 3000 >>, 9000, 0 >>,
      << << 2000, 6000 >>, 1000, 1000 >>, << << 2000, 6000 >>, 2000, 2000 >>,
      << << 2000, 6000 >>, 7000, 3000 >>, << << 2000, 6000 >>, 10000, 2000 >> }

ClaimedAutomation(points, t, defaultValue, result) ==
    IF points = << >> THEN result = defaultValue
    ELSE IF t <= points[1].timeSeconds THEN result = points[1].value
    ELSE IF t >= points[Len(points)].timeSeconds THEN result = points[Len(points)].value
    ELSE \E i \in 1..(Len(points) - 1) :
            LET a == points[i]
                b == points[i + 1]
                span == b.timeSeconds - a.timeSeconds
                exact == a.value * span + (t - a.timeSeconds) * (b.value - a.value)
            IN /\ a.timeSeconds < t /\ t <= b.timeSeconds
               /\ result * span <= exact /\ exact < (result + 1) * span
               /\ jmin(a.value, b.value) <= result /\ result <= jmax(a.value, b.value)

\* C19: on a sorted lane evalAutomation returns the default for an empty lane, the
\* first point's value at or before the first point, the last point's value at or
\* after the last point, and otherwise the linear interpolation between the two
\* bracketing points, which lies between their values.
C19_AutomationInterpolates ==
    [][AudioMix(1) =>
          LET timeline == TL(timelines, 1)
          IN /\ IsSortedByTime(timeline.volumeAutomation) =>
                   ClaimedAutomation(timeline.volumeAutomation, audio'.localTime,
                                     timeline.volume, audio'.volEval)
             /\ IsSortedByTime(timeline.panAutomation) =>
                   ClaimedAutomation(timeline.panAutomation, audio'.localTime,
                                     timeline.pan, audio'.panEval)]_vars

\* the points (0, 0) and (4, 1) at time 2 gave 0.5
C19_Witness ==
    /\ audio.mixed
    /\ audio.localTime = 2000
    /\ TL(timelines, 1).volumeAutomation = << Point(1, 0, 0), Point(2, 4000, 100) >>
    /\ audio.volEval = 50

\* C20: with vol clamped to [0, 1] and pan to [-1, 1], leftGain^2 = vol^2 * 0.5 *
\* (1 - pan) and rightGain^2 = vol^2 * 0.5 * (1 + pan); the gains are equal at pan 0,
\* the left one is 0 at pan 1, the right one is 0 at pan -1, and the squares add up
\* to vol^2 (squares in units of 1 / 2000000).
C20_EqualPowerPan ==
    [][AudioMix(1) =>
          LET vol == jmax(0, jmin(100, audio'.volEval))
              pan == jmax(-100, jmin(100, audio'.panEval))
          IN /\ audio'.leftGain = vol * vol * (100 - pan)
             /\ audio'.rightGain = vol * vol * (100 + pan)
             /\ pan = 0 => audio'.leftGain = audio'.rightGain
             /\ pan = 100 => audio'.leftGain = 0
             /\ pan = -100 => audio'.rightGain = 0
             /\ audio'.leftGain + audio'.rightGain = 200 * vol * vol]_vars

\* a track volume of 1.5 and a pan of -1.5 from the project file were mixed as
\* volume 1 hard left: the right gain is 0, the left gain is 1
C20_Witness ==
    /\ audio.mixed
    /\ audio.volEval = 150
    /\ audio.panEval = -150
    /\ audio.rightGain = 0
    /\ audio.leftGain = 2000000


\* the data model without the rendered buffers and the waveform summaries
RoundTripValue(tls, heap) ==
    [i \in 1..Len(tls) |->
        [tls[i] EXCEPT !.markers = [k \in 1..Len(tls[i].markers) |->
            [MarkerValue(heap[tls[i].markers[k]]) EXCEPT !.renderedBuffer = NoBuffer,
                                                         !.waveform = << >>]]]]

\* C21: serializing the model and deserializing the result yields a model in which
\* every field of every Timeline, automation point and Marker equals the original
\* (the automation id counter, renderBars, the fades and the cache stamp included),
\* except renderedBuffer and the waveform summary.
C21_RoundTripsEveryField ==
    LET doc == serializeModel(timelines, markerHeap)
    IN RoundTripValue(deserializeTimelines(doc), deserializeHeap(doc))
          = RoundTripValue(timelines, markerHeap)


\* a corrupted project document: unparseable text, a root that is no object, no
\* "timelines" array, or a timeline or marker entry that is no object
Corrupted(doc) ==
    \/ doc.kind # "object"
    \/ ~doc.hasTimelines
    \/ \E i \in 1..Len(doc.timelines) :
          \/ ~IsObject(doc.timelines[i])
          \/ \E k \in 1..Len(doc.timelines[i].markers) : ~IsObject(doc.timelines[i].markers[k])

\* C22: loading a corrupted project document aborts the load and leaves every
\* Timeline and every Marker of the live model as it was.
C22_CorruptedLoadLeavesModel ==
    [][\A doc \in Documents \cup LaneDocuments \cup CorruptDocuments \cup RangeDocuments :
          (Corrupted(doc) /\ (loadProject(doc) \/ loadProjectVoid(doc)))
              => (timelines' = timelines /\ markerHeap' = markerHeap)]_vars


\* the beat units of the time signature box
BeatUnits == { 1, 2, 4, 8, 16 }

\* C23: in every reachable state every Timeline has tempoBpm > 0, durationSeconds > 0,
\* beatsPerBar >= 1, beatUnit in {1, 2, 4, 8, 16}, volume in [0, 1] and pan in
\* [-1, 1], and every Marker has startTimeSeconds >= 0.
C23_FieldsInRange ==
    \A i \in 1..Len(timelines) :
        LET timeline == timelines[i]
        IN /\ timeline.tempoBpm > 0
           /\ timeline.durationSeconds > 0
           /\ timeline.beatsPerBar >= 1
           /\ timeline.beatUnit \in BeatUnits
           /\ 0 <= timeline.volume /\ timeline.volume <= 100
           /\ -100 <= timeline.pan /\ timeline.pan <= 100
           /\ \A k \in 1..Len(timeline.markers) :
                 markerHeap[timeline.markers[k]].startTimeSeconds >= 0


\* the timelines whose marker collection holds the Marker, once per occurrence
Owners(tls, id) ==
    { << i, k >> \in (1..Len(tls)) \X (1..MaxMarkers) :
         k <= Len(tls[i].markers) /\ tls[i].markers[k] = id }

OwnedOnce(tls, heap) ==
    \A id \in MarkerIds :
        Cardinality(Owners(tls, id)) = (IF heap[id].live THEN 1 ELSE 0)

\* a cross-timeline drag from the drag's timeline to the target: the selected
\* Markers of the source are in the target afterwards, every other Marker is where
\* it was
MoveTransfers(target) ==
    LET from == view.dragTimelineIndex
        moving == SeqRange(view.selectedMarkers) \cap SeqRange(TL(timelines, from).markers)
    IN /\ SeqRange(TL(timelines', from).markers) = SeqRange(TL(timelines, from).markers) \ moving
       /\ SeqRange(TL(timelines', target).markers) =
             SeqRange(TL(timelines, target).markers) \cup moving
       /\ \A i \in 1..Len(timelines) :
             (i # from + 1 /\ i # target + 1) => timelines'[i].markers = timelines[i].markers
       /\ OwnedIds(timelines') = OwnedIds(timelines)
       /\ Len(timelines') = Len(timelines)

AudioStep == AudioBegin \/ AudioSilent \/ AudioSeek \/ AudioCheck \/ AudioRead \/ AudioEnd

\* C25: getNextAudioBlock changes no Timeline, Marker, automation, repeat-marker or
\* undo-stack state; it writes the playhead only, at the end of a block while
\* playing, to the value read at the block's start plus n / deviceSampleRate for the
\* n samples of the block, and leaves it unchanged while not playing.
C25_AudioCallbackReadOnly ==
    [][/\ AudioStep => UNCHANGED << timelines, markerHeap, undoSnapshots, copiedMarkers >>
       /\ AudioBegin => audio'.baseTime = playheadSeconds
       /\ AudioEnd => playheadSeconds' =
                         audio.baseTime + (BlockSamples * 1000) \div deviceSampleRate
       /\ (AudioBegin \/ AudioSilent \/ AudioSeek \/ AudioCheck \/ AudioRead)
             => UNCHANGED playheadSeconds]_vars

\* a block that read a sample of the Marker has ended and the playhead has advanced
C25_Witness ==
    /\ audio.pc = "idle"
    /\ audio.sampled
    /\ playheadSeconds = audio.baseTime + (BlockSamples * 1000) \div deviceSampleRate

\* a block has passed while not playing and the playhead stayed where it was
C25_WitnessSilent ==
    /\ audio.silent
    /\ ~playing
    /\ playheadSeconds = 0


\* a step of runJob that reads or writes the job's Marker
JobAccess(w) ==
    \/ \E present \in BOOLEAN, started \in BOOLEAN : JobBegin(w, present, started)
    \/ JobStoreRate(w)
    \/ JobStoreBuffer(w)
    \/ JobFinish(w)

\* C26: no Marker is accessed after it was destroyed: a render job reads and writes
\* its Marker only while the Marker is alive.
C26_NoAccessAfterDestroy ==
    [][\A w \in Workers : JobAccess(w) => markerHeap[workers[w].marker].live]_vars


\* every render request has completed
NoJobInFlight == jobQueue = << >> /\ \A w \in Workers : workers[w].pc = "idle"

\* the Marker is as the request for the timeline's current parameters leaves it
RenderedAsRequested(timeline, marker) ==
    LET durationSeconds == getRenderDurationSecondsForMarker(timeline, marker)
    IN /\ ~needsRerender(timeline, marker)
       /\ marker.renderedSampleRate = deviceSampleRate
       /\ marker.renderedBuffer =
             MakeBuffer(<< RenderedSamples(durationSeconds, deviceSampleRate) >>)
       /\ marker.waveform = recomputeWaveform(marker.renderedBuffer)

\* C27: when every render request submitted for a Marker has completed
\* successfully, the Marker's buffer, sample rate, waveform and stamp are those of
\* the most recently submitted request: the stamp matches the timeline's current
\* parameters, so that a following sweep submits nothing.
C27_LastRequestWins ==
    NoJobInFlight =>
        \A i \in 1..Len(timelines) : \A k \in 1..Len(timelines[i].markers) :
            RenderedAsRequested(timelines[i], markerHeap[timelines[i].markers[k]])


\* the cache stamp of a Marker, of a MarkerSnapshot or of a CopiedMarkerData
StampOf(m) ==
    << m.lastRenderedPythonPath, m.lastRenderedTempoBpm, m.lastRenderedDurationSeconds >>

\* the snapshots and clipboard entries a Marker can be built from
StampSources ==
    UNION { UNION { SeqRange(undoSnapshots[n].timelines[i].markers) :
                       i \in 1..Len(undoSnapshots[n].timelines) } :
               n \in 1..Len(undoSnapshots) }
       \cup SeqRange(copiedMarkers)

\* C28: a Marker's cache stamp is written only by a successful render job, with the
\* job's parameters, or copied verbatim together with the buffer from a snapshot or
\* from the clipboard; a new Marker has no stamp.  It is never set to the values of
\* a render that did not happen.
C28_StampOnlyFromRender ==
    [][\A id \in MarkerIds :
          markerHeap'[id].live =>
             \/ markerHeap[id].live /\ StampOf(markerHeap'[id]) = StampOf(markerHeap[id])
             \/ \E w \in Workers :
                   /\ JobFinish(w)
                   /\ workers[w].marker = id
                   /\ StampOf(markerHeap'[id]) =
                         << markerHeap[id].pythonFile, workers[w].tempoBpm,
                            workers[w].durationSeconds >>
             \/ \E source \in StampSources :
                   /\ StampOf(markerHeap'[id]) = StampOf(source)
                   /\ markerHeap'[id].renderedBuffer = source.renderedBuffer
             \/ /\ StampOf(markerHeap'[id]) = StampOf(NewMarker)
                /\ ~markerHeap'[id].renderedBuffer.present]_vars


\* the stack after one more snapshot: at the end, the oldest one discarded when
\* there are more than 10
Pushed(stack, snap) ==
    LET longer == Append(stack, snap)
    IN IF Len(longer) > MaxUndo THEN SubSeq(longer, 2, Len(longer)) ELSE longer

\* C29: the undo stack is LIFO with oldest-first eviction: a push (one by Add
\* Track, one or two by Delete of a timeline) puts the snapshot of the model as it
\* is on top and, when that makes 11, discards the oldest and keeps the 10 most
\* recent in order; an undo takes the most recent snapshot off and the model is then
\* what that snapshot captured.
C29_UndoStackLifo ==
    [][HandlerStep =>
          IF lastOp' \in UndoOps
          THEN undoSnapshots # << >> =>
                  /\ undoSnapshots' = SubSeq(undoSnapshots, 1, Len(undoSnapshots) - 1)
                  /\ snapshotModel(timelines', markerHeap') = undoSnapshots[Len(undoSnapshots)]
          ELSE LET snap == snapshotModel(timelines, markerHeap)
                   once == Pushed(undoSnapshots, snap)
                   twice == Pushed(once, snap)
               IN IF lastOp' = "addTrack" THEN undoSnapshots' = once
                  ELSE IF lastOp' = "deleteTimeline" THEN undoSnapshots' \in { once, twice }
                  ELSE undoSnapshots' \in { undoSnapshots, once, twice }]_vars

\* the oldest snapshot (the constructed model, three timelines) was discarded by
\* an 11th push, and an undo has taken the most recent one off since
C29_Witness ==
    /\ lastOp = "undo"
    /\ Len(undoSnapshots) = MaxUndo - 1
    /\ Len(undoSnapshots[1].timelines) # 3


\* the snapshots of the old stack that are still on the new one are as they were
\* and where they were, counted from the oldest kept: evicted snapshots left at the
\* bottom only of a full stack, at most one was popped from the top, and whatever
\* is above them was pushed in this step
SnapshotsKept(old, new, pushedSnap) ==
    \E evicted \in 0..Len(old), popped \in 0..1 :
        /\ evicted + popped <= Len(old)
        /\ LET kept == Len(old) - evicted - popped
           IN /\ Len(new) >= kept
              /\ SubSeq(new, 1, kept) = SubSeq(old, evicted + 1, evicted + kept)
              /\ \A n \in (kept + 1)..Len(new) : new[n] = pushedSnap
              /\ popped = 1 => Len(new) = kept /\ evicted = 0
              /\ evicted > 0 => Len(new) = MaxUndo

\* C30: a snapshot on the undo stack is independent of the live model: no step that
\* changes the live model (marker moves, fade edits, cuts, edits of the timeline)
\* changes a snapshot that is already on the stack; the stack changes only by
\* snapshots pushed on top, popped from the top or evicted at the bottom.
C30_SnapshotsIndependent ==
    [][SnapshotsKept(undoSnapshots, undoSnapshots', snapshotModel(timelines, markerHeap))]_vars

\* a fade was dragged on the live Marker after the snapshot on top of the stack was
\* taken: the snapshot still holds the fade and the buffer it was taken with
C30_Witness ==
    /\ lastOp = "fadeDrag"
    /\ undoSnapshots # << >>
    /\ LET top == undoSnapshots[Len(undoSnapshots)]
       IN /\ Len(top.timelines) = 1
          /\ Len(top.timelines[1].markers) = 1
          /\ top.timelines[1].markers[1].renderedBuffer.present
          /\ Len(timelines) = 1
          /\ Len(timelines[1].markers) = 1
          /\ top.timelines[1].markers[1].fadeInSeconds
                # markerHeap[timelines[1].markers[1]].fadeInSeconds


\* C31: isRestoring is false whenever undoSnapshot has returned (so no later push is
\* suppressed by it), nothing is appended to the undo stack during the restore, and
\* an undo of a non-empty stack therefore leaves it exactly one entry shorter.
C31_RestoreGuard ==
    /\ ~isRestoring
    /\ [][/\ ~isRestoring'
          /\ (HandlerStep /\ lastOp' \in UndoOps /\ undoSnapshots # << >>) =>
                /\ Len(undoSnapshots') = Len(undoSnapshots) - 1
                /\ \A n \in 1..Len(undoSnapshots') : undoSnapshots'[n] = undoSnapshots[n]
          /\ (HandlerStep /\ lastOp' = "addTrack") =>
                undoSnapshots' = Pushed(undoSnapshots, snapshotModel(timelines, markerHeap))]_vars

\* an Add Track that follows an undo has pushed its snapshot: two Deletes left four
\* entries, the undo three, and the push made them four again
C31_Witness ==
    /\ lastOp = "addTrack"
    /\ ~isRestoring
    /\ Len(undoSnapshots) = 4
    /\ Len(timelines) = 3
    /\ Len(undoSnapshots[4].timelines) = 2
    /\ Len(undoSnapshots[3].timelines) = 2
    /\ Len(undoSnapshots[2].timelines) = 3

\* C32: on a sorted lane with two consecutive points at the same time, evalAutomation
\* at exactly that time returns the value of the right point of the pair.
C32_ZeroSpanGivesRightPoint ==
    [][AudioMix(1) =>
          LET lane == TL(timelines, 1).volumeAutomation
          IN IsSortedByTime(lane) =>
                \A i \in 1..(Len(lane) - 1) :
                    (lane[i].timeSeconds = lane[i + 1].timeSeconds
                        /\ audio'.localTime = lane[i].timeSeconds) =>
                       audio'.volEval = lane[i + 1].value]_vars


\* the fade gain of the claim for sample srcSample of a buffer of total samples, as
\* a fraction
ClaimedFade(srcSample, total, fadeInSamples, fadeOutSamples, fade) ==
    LET in == IF srcSample < fadeInSamples THEN << srcSample, fadeInSamples >> ELSE << 1, 1 >>
        out == << total - srcSample, fadeOutSamples >>
    IN /\ fade[2] > 0
       /\ IF srcSample > total - fadeOutSamples
          THEN fade[1] * in[2] * out[2] = fade[2] * jmin(in[1] * out[2], out[1] * in[2])
          ELSE fade[1] * in[2] = fade[2] * in[1]
       /\ 0 <= fade[1] /\ fade[1] <= fade[2]

\* C33: per Marker and output sample the mix skips the Marker when localTime -
\* startTimeSeconds < 0 or when srcSample is outside [0, numSamples), so a buffer is
\* only ever indexed inside its bounds; the fade gain of a contributing sample is 1
\* unless srcSample < fadeInSamples (then srcSample / fadeInSamples), is limited to
\* (total - srcSample) / fadeOutSamples when srcSample > total - fadeOutSamples, and
\* lies in [0, 1].
C33_MixIndexesInsideBuffer ==
    [][/\ (AudioSeek /\ audio'.pc = "check") => audio'.sourceSample >= 0
       /\ (AudioCheck /\ audio'.pc = "read") =>
             LET marker == markerHeap[TL(timelines, audio.t).markers[audio.k]]
             IN audio.sourceSample < getNumSamples(marker.renderedBuffer)
       /\ AudioRead =>
             LET marker == markerHeap[TL(timelines, audio.t).markers[audio.k]]
                 total == getNumSamples(marker.renderedBuffer)
             IN /\ 0 <= audio.sourceSample /\ audio.sourceSample < total
                /\ ClaimedFade(audio.sourceSample, total,
                               RoundDiv(marker.fadeInSeconds * marker.renderedSampleRate, 1000),
                               RoundDiv(marker.fadeOutSeconds * marker.renderedSampleRate, 1000),
                               audio'.fade)]_vars


\* a render job stands between its store of the Marker's buffer (line 93) and its
\* waveform loop (lines 97-123)
BeingSummarised(m) == \E w \in Workers : workers[w].pc = "finish" /\ workers[w].marker = m

\* C34: whenever a Marker of a timeline has a rendered buffer (and no render job is
\* just between storing that buffer and summarising it), its waveform has exactly
\* 200 entries in [0, 1] and is the summary of the current buffer: entry i is the
\* peak of |sample| over all channels and the samples of bin i; this holds after
\* every render completion and every cut.
C34_WaveformOfCurrentBuffer ==
    \A m \in OwnedIds(timelines) :
        (markerHeap[m].live /\ markerHeap[m].renderedBuffer.present /\ ~BeingSummarised(m)) =>
            /\ Len(markerHeap[m].waveform) = WaveformPoints
            /\ \A i \in 1..Len(markerHeap[m].waveform) :
                  0 <= markerHeap[m].waveform[i] /\ markerHeap[m].waveform[i] <= 100
            /\ markerHeap[m].waveform = recomputeWaveform(markerHeap[m].renderedBuffer)


\* the bar length of the claim in milliseconds: (60 / tempoBpm) * (4 / beatUnit) * beatsPerBar
ClaimedBarSeconds(timeline) ==
    (240000 * timeline.beatsPerBar) \div (timeline.tempoBpm * timeline.beatUnit)

ClaimedRenderDuration(timeline, marker) ==
    IF marker.renderBars > 0
    THEN jmax(MinRenderMs, ClaimedBarSeconds(timeline) * marker.renderBars)
    ELSE IF isAlvaSynthFile(marker.pythonFile) THEN jmax(MinRenderMs, ClaimedBarSeconds(timeline))
    ELSE timeline.durationSeconds

\* C35: for every Marker of every timeline (with a tempo and a beat unit the bar
\* length of the claim is defined for) getRenderDurationSecondsForMarker returns
\* max(0.01, barSeconds * renderBars) when renderBars > 0, else max(0.01, barSeconds)
\* for a source named with the reserved prefix, else the timeline's duration, and
\* the result is > 0 when the timeline's duration is.
C35_RenderDurationAsClaimed ==
    \A i \in 1..Len(timelines) :
        \A k \in 1..Len(timelines[i].markers) :
            LET timeline == timelines[i]
                marker == markerHeap[timelines[i].markers[k]]
                result == getRenderDurationSecondsForMarker(timeline, marker)
            IN (marker.live /\ timeline.tempoBpm * timeline.beatUnit # 0) =>
                  /\ result = ClaimedRenderDuration(timeline, marker)
                  /\ timeline.durationSeconds > 0 => result > 0


\* the Marker pointers the view holds
ViewMarkers(v) ==
    (SeqRange(v.selectedMarkers)
        \cup { v.lastSelectedMarker, v.draggingMarker, v.draggingFadeMarker }) \ { NoMarker }

\* C36: every Marker pointer held by the view's selection or by a drag refers to a
\* live Marker that some timeline owns.
C36_SelectionIsLive ==
    \A m \in ViewMarkers(view) : markerHeap[m].live /\ m \in OwnedIds(timelines)


\* C37: editInProgress is false whenever no mouse gesture is in progress: the
\* mouseUp that ends a gesture has cleared it.
C37_EditEndsWithGesture == ~view.mouseIsDown => ~view.editInProgress


\* C38: once Stop has run, and for as long as no other handler has run since, playback
\* is off and the playhead is 0, whatever the audio callback was doing when Stop was
\* pressed.
C38_StopResetsPlayhead == lastOp = "stop" => (~playing /\ playheadSeconds = 0)


DeleteOps == {"deleteAutomationPoint", "deleteRepeatMarker", "deleteMarkers", "deleteTimeline"}

\* C39: one Delete or Backspace key press adds exactly one snapshot to the undo
\* stack, the model as it was before the key, whichever of the four targets it
\* deletes.
C39_DeletePushesOnce ==
    [][(HandlerStep /\ lastOp' \in DeleteOps) =>
          undoSnapshots' = Pushed(undoSnapshots, snapshotModel(timelines, markerHeap))]_vars


\* every repeat marker of every timeline lies on the timeline
RepeatMarkersInside(tls) ==
    \A i \in 1..Len(tls) :
        \A k \in 1..Len(tls[i].repeatMarkers) :
            0 <= tls[i].repeatMarkers[k] /\ tls[i].repeatMarkers[k] <= tls[i].durationSeconds

\* C40: for every reachable timeline and every playhead time t >= 0
\* getLoopedLocalTime is in [0, durationSeconds], and the repeat markers stay in
\* [0, durationSeconds], also after the duration has been reduced.
C40_LoopTimeInsideTimeline ==
    [][/\ RepeatMarkersInside(timelines) => RepeatMarkersInside(timelines')
       /\ AudioMix(1) =>
             /\ 0 <= audio'.localTime
             /\ audio'.localTime <= TL(timelines, 1).durationSeconds]_vars

====
